---- MODULE Spec2Model ----
(***************************************************************************)
(* Model of the in-memory TTL cache and the refresh governor of the        *)
(* dashboard (the cache module: cache, lastRefreshes, getFromCache,        *)
(* saveToCache, clearCache, getCacheAge, canRefresh, markRefreshed,        *)
(* getRemainingCooldown).                                                  *)
(*                                                                         *)
(* A JavaScript object used as a map (Record<string, T>) is a function     *)
(* whose DOMAIN is the set of keys present; `delete o[k]` restricts the    *)
(* domain.  Date.now() is the variable now, in milliseconds; the clock is  *)
(* advanced by the action Tick and is read by every operation.             *)
(***************************************************************************)
EXTENDS Integers, Sequences, FiniteSets, Bags, TLC

\* ------------------------------------------------------------------ bounds
\* The number of clock advances explored when the cache or the governor runs
\* alone, and when both run together.
MaxTicks == 3
MaxTicksBoth == 1

\* --------------------------------------------------------------- constants
\* Cache duration in milliseconds (30 minutes).
CACHE_DURATION == 30 * 60 * 1000

\* Refresh cooldown in milliseconds (10 minutes).
REFRESH_COOLDOWN == 10 * 60 * 1000

\* The cache keys passed by callers: the empty string and a non-empty key.
Keys == {"", "A"}

\* The payloads stored (opaque to the cache).
Payloads == {"v1", "v2"}

\* A nullable result (T | null): null is the empty sequence, a value v is <<v>>.
Null == << >>
Some(v) == <<v>>

\* The values Date.now() has when the module is loaded.  Date.now() follows
\* the system clock, which nothing keeps away from the epoch (a machine
\* without a set clock starts there): the epoch itself, and a clock that is
\* already REFRESH_COOLDOWN past it, which stands for every later one (only
\* differences of clock values are compared from there on).
StartClocks == {0, REFRESH_COOLDOWN}

\* The amounts by which the clock advances between two operations: one
\* millisecond, one millisecond less than the cooldown, and the whole
\* cache duration.
ClockSteps == {1, REFRESH_COOLDOWN - 1, CACHE_DURATION}

\* The argument lists of clearCache(key?): no argument, or one key.
ClearArgs == {<< >>} \cup {<<k>> : k \in Keys}

VARIABLES
    now,            \* Date.now()
    ticks,          \* number of clock advances so far
    cache,          \* const cache: Record<string, CacheItem>
    lastRefreshes,  \* const lastRefreshes: Record<string, number>
    saved,          \* history: the last saveToCache of a key since its last clear
    wiped,          \* history: keys saved, then cleared by clearCache(), not saved since
    marked,         \* history: the last markRefreshed of a key, and whether an
                    \* earlier one was less than REFRESH_COOLDOWN before it
    last,           \* history: the last operation, its arguments and its result
    fmt,            \* the last call of formatCooldown: its argument and its result
    ui,             \* StockCard, StockDetail and Dashboard: their state, the
                    \* invocations of their handlers suspended at an await,
                    \* and the provider call that settled last
    early,          \* history: the keys that a handler refreshed less than
                    \* REFRESH_COOLDOWN after their refresh before
    chart,          \* a ChartCard: its props, its state and where its series
                    \* came from
    synth,          \* the synthesizer: the wall clock, and the series and the
                    \* quote snapshot last generated
    auth            \* AuthProvider: user, loading, the "user" entry of
                    \* localStorage, the timers of login and register that
                    \* have not fired, and whether logout was the last call

\* The variables that the cache and governor operations leave alone.
others == <<fmt, synth, chart, ui, early, auth>>

\* The variables of the cache module.
coreVars == <<now, ticks, cache, lastRefreshes, saved, wiped, marked, last>>

\* What a call of formatCooldown, and what the synthesizer, leaves alone.
exceptFmt == <<coreVars, synth, chart, ui, early, auth>>
exceptSynth == <<coreVars, fmt, chart, ui, early, auth>>

\* What a ChartCard leaves alone when it touches the cache module, and when
\* it does not.
exceptCoreChart == <<fmt, synth, ui, auth>>
exceptChart == <<coreVars, fmt, synth, ui, early, auth>>

\* What AuthProvider leaves alone.
exceptAuth == <<now, ticks, cache, lastRefreshes, saved, wiped, marked, fmt,
                synth, chart, ui, early>>

vars == <<now, ticks, cache, lastRefreshes, saved, wiped, marked, last, others>>

\* ----------------------------------------------------------------- helpers
\* The empty object {}.
EmptyRecord == [k \in {} |-> Null]

\* `delete o[k]`: the object without the property k.
Delete(o, k) == [x \in DOMAIN o \ {k} |-> o[x]]

\* `o[k] = v`: the object with the property k set to v.
Assign(o, k, v) == [x \in DOMAIN o \cup {k} |-> IF x = k THEN v ELSE o[x]]

\* Math.max(a, b)
Max(a, b) == IF a >= b THEN a ELSE b

\* ------------------------------------------------------------ the TTL cache
\* Variant: the entry expires already at exactly CACHE_DURATION.
MutIsExpiredInclusive(item, t) == t - item.timestamp >= CACHE_DURATION

\* `now - item.timestamp > CACHE_DURATION`
IsExpired(item, t) == t - item.timestamp > CACHE_DURATION

\* Variant: an expired entry is reported as a miss but left in the store.
MutGetFromCacheNoEvict(c, key, t) ==
    IF key \notin DOMAIN c THEN [cache |-> c, ret |-> Null]
    ELSE IF IsExpired(c[key], t) THEN [cache |-> c, ret |-> Null]
    ELSE [cache |-> c, ret |-> Some(c[key].data)]

\* Variant: a hit stamps the entry again (sliding expiration).
MutGetFromCacheSliding(c, key, t) ==
    IF key \notin DOMAIN c THEN [cache |-> c, ret |-> Null]
    ELSE IF IsExpired(c[key], t) THEN [cache |-> Delete(c, key), ret |-> Null]
    ELSE [cache |-> Assign(c, key, [data |-> c[key].data, timestamp |-> t]),
          ret |-> Some(c[key].data)]

\* getFromCache(key) at time t on the store c: the store afterwards and the
\* value returned.
getFromCache(c, key, t) ==
    IF key \notin DOMAIN c THEN [cache |-> c, ret |-> Null]
    ELSE IF IsExpired(c[key], t) THEN [cache |-> Delete(c, key), ret |-> Null]
    ELSE [cache |-> c, ret |-> Some(c[key].data)]

\* Variant: an overwrite keeps the timestamp of the entry it replaces.
MutSaveToCacheKeepStamp(c, key, data, t) ==
    Assign(c, key, [data |-> data,
                    timestamp |-> IF key \in DOMAIN c THEN c[key].timestamp ELSE t])

\* saveToCache(key, data) at time t: the store afterwards.
saveToCache(c, key, data, t) ==
    Assign(c, key, [data |-> data, timestamp |-> t])

\* `if (key)`: the argument was given and is not the empty string.
Truthy(args) == Len(args) = 1 /\ args[1] # ""

\* Variant: without a key nothing is cleared.
MutClearCacheAllIsNoop(c, args) ==
    IF Truthy(args) THEN Delete(c, args[1])
    ELSE c

\* Variant: with a key nothing is cleared.
MutClearCacheKeyIsNoop(c, args) ==
    IF Truthy(args) THEN c
    ELSE EmptyRecord

\* clearCache(key?): the store afterwards.
clearCache(c, args) ==
    IF Truthy(args) THEN Delete(c, args[1])
    ELSE EmptyRecord

\* getCacheAge(key) at time t: the age, or Null.
getCacheAge(c, key, t) ==
    IF key \notin DOMAIN c THEN Null ELSE Some(t - c[key].timestamp)

\* -------------------------------------------------------- refresh governor
\* `lastRefreshes[key] || 0`
lastRefreshOrZero(lr, key) ==
    IF key \in DOMAIN lr /\ lr[key] # 0 THEN lr[key] ELSE 0

\* Variant: the refresh is allowed only after more than REFRESH_COOLDOWN.
MutCanRefreshStrict(lr, key, t) == t - lastRefreshOrZero(lr, key) > REFRESH_COOLDOWN

\* canRefresh(key) at time t.
canRefreshAt(lr, key, t) == t - lastRefreshOrZero(lr, key) >= REFRESH_COOLDOWN

\* Variant: the time is recorded only when the refresh is allowed.
MutMarkRefreshedGuarded(lr, key, t) ==
    IF canRefreshAt(lr, key, t) THEN Assign(lr, key, t) ELSE lr

\* Variant: the time is recorded for every key on record.
MutMarkRefreshedAll(lr, key, t) == [k \in DOMAIN lr \cup {key} |-> t]

\* markRefreshed(key) at time t: lastRefreshes afterwards.
markRefreshed(lr, key, t) == Assign(lr, key, t)

\* Variant: a key that was never refreshed has no cooldown left.
MutRemainingNoSentinel(lr, key, t) ==
    IF key \notin DOMAIN lr THEN 0
    ELSE Max(0, REFRESH_COOLDOWN - (t - lr[key]))

\* getRemainingCooldown(key) at time t.
getRemainingCooldownAt(lr, key, t) ==
    LET elapsed == t - lastRefreshOrZero(lr, key)
    IN  Max(0, REFRESH_COOLDOWN - elapsed)

\* The two queries on the current state.
canRefresh(key) == canRefreshAt(lastRefreshes, key, now)
getRemainingCooldown(key) == getRemainingCooldownAt(lastRefreshes, key, now)

\* ------------------------------------------- cache and governor actions
\* The module as loaded: an empty cache and no refresh recorded.
InitCache ==
    /\ now \in StartClocks
    /\ ticks = 0
    /\ cache = EmptyRecord
    /\ lastRefreshes = EmptyRecord
    /\ saved = EmptyRecord
    /\ wiped = {}
    /\ marked = EmptyRecord
    /\ last = [name |-> "init", args |-> << >>, ret |-> Null]

\* Time passes between two operations: Date.now() is d milliseconds later.
Advance(d) ==
    /\ now' = now + d
    /\ ticks' = ticks + 1
    /\ last' = [name |-> "tick", args |-> << >>, ret |-> Null]
    /\ UNCHANGED <<cache, lastRefreshes, saved, wiped, marked, others>>

Tick(d) == ticks < MaxTicks /\ Advance(d)

TickBoth(d) == ticks < MaxTicksBoth /\ Advance(d)

GetFromCache(key) ==
    LET r == getFromCache(cache, key, now) IN
    /\ cache' = r.cache
    /\ last' = [name |-> "getFromCache", args |-> <<key>>, ret |-> r.ret]
    /\ UNCHANGED <<now, ticks, lastRefreshes, saved, wiped, marked, others>>

\* getCacheAge(key): a read, the store stays as it is.
GetCacheAge(key) ==
    /\ last' = [name |-> "getCacheAge", args |-> <<key>>,
                ret |-> getCacheAge(cache, key, now)]
    /\ UNCHANGED <<now, ticks, cache, lastRefreshes, saved, wiped, marked, others>>

SaveToCache(key, data) ==
    /\ cache' = saveToCache(cache, key, data, now)
    /\ saved' = Assign(saved, key,
                 [data |-> data, timestamp |-> now,
                  prev |-> IF key \in DOMAIN saved THEN Some(saved[key].data) ELSE Null,
                  prevExpired |-> /\ key \in DOMAIN saved
                                  /\ now - saved[key].timestamp > CACHE_DURATION])
    /\ wiped' = wiped \ {key}
    /\ last' = [name |-> "saveToCache", args |-> <<key, data>>, ret |-> Null]
    /\ UNCHANGED <<now, ticks, lastRefreshes, marked, others>>

\* Variant: clearing the cache also forgets the refresh times.
MutClearCacheResetsGates(args) ==
    /\ cache' = clearCache(cache, args)
    /\ lastRefreshes' = IF Truthy(args) THEN Delete(lastRefreshes, args[1])
                        ELSE EmptyRecord
    /\ saved' = IF Len(args) = 1 /\ args[1] # "" THEN Delete(saved, args[1])
                ELSE EmptyRecord
    /\ wiped' = IF args = << >> THEN wiped \cup DOMAIN saved ELSE wiped
    /\ last' = [name |-> "clearCache", args |-> args, ret |-> Null]
    /\ UNCHANGED <<now, ticks, marked, others>>

\* The history forgets the save of the key named, and every save when no
\* key (or the empty key, which the call cannot tell from no key) is named;
\* it remembers the keys that a call without argument found saved.
ClearCache(args) ==
    /\ cache' = clearCache(cache, args)
    /\ saved' = IF Len(args) = 1 /\ args[1] # "" THEN Delete(saved, args[1])
                ELSE EmptyRecord
    /\ wiped' = IF args = << >> THEN wiped \cup DOMAIN saved ELSE wiped
    /\ last' = [name |-> "clearCache", args |-> args, ret |-> Null]
    /\ UNCHANGED <<now, ticks, lastRefreshes, marked, others>>

MarkRefreshed(key) ==
    /\ lastRefreshes' = markRefreshed(lastRefreshes, key, now)
    /\ marked' = Assign(marked, key,
                  [at |-> now,
                   cooling |-> /\ key \in DOMAIN marked
                               /\ now - marked[key].at > 0
                               /\ now - marked[key].at < REFRESH_COOLDOWN])
    /\ last' = [name |-> "markRefreshed", args |-> <<key>>, ret |-> Null]
    /\ UNCHANGED <<now, ticks, cache, saved, wiped, others>>

\* --------------------------------------------------------- formatCooldown
\* The largest number of whole seconds among the durations formatted.
MaxSeconds == 90

\* The durations formatted: whole seconds, and one millisecond before and
\* after each.
FormatInputs ==
    {s * 1000 + r : s \in 0..MaxSeconds, r \in {0, 1, 999}}

\* Math.ceil(a / b) and Math.floor(a / b) for integers a and b > 0.
CeilDiv(a, b) == -((-a) \div b)
FloorDiv(a, b) == a \div b

\* Variant: the seconds are rounded down.
MutFormatCooldownFloor(ms) ==
    LET totalSeconds == FloorDiv(ms, 1000)
        minutes == FloorDiv(totalSeconds, 60)
        seconds == totalSeconds % 60
    IN  ToString(minutes) \o "m " \o ToString(seconds) \o "s"

\* formatCooldown(ms): `${minutes}m ${seconds}s`
formatCooldown(ms) ==
    LET totalSeconds == CeilDiv(ms, 1000)
        minutes == FloorDiv(totalSeconds, 60)
        seconds == totalSeconds % 60
    IN  ToString(minutes) \o "m " \o ToString(seconds) \o "s"

\* A caller formats a duration.
FormatCooldown(ms) ==
    /\ fmt' = [ms |-> ms, out |-> formatCooldown(ms)]
    /\ UNCHANGED exceptFmt

\* ------------------------------------------------- deterministic synthesizer
\* A ticker is the sequence of the UTF-16 codes of its characters.
META == <<77, 69, 84, 65>>
MetaLower == <<109, 101, 116, 97>>
AAPL == <<65, 65, 80, 76>>
MsftMixed == <<77, 115, 102, 116>>
GOOGL == <<71, 79, 79, 71, 76>>
AMZN == <<65, 77, 90, 78>>
TSLA == <<84, 83, 76, 65>>
TslaLower == <<116, 115, 108, 97>>
\* Two tickers outside the table; TEAM has the characters, hence the seed,
\* of META.
TEAM == <<84, 69, 65, 77>>
IBM == <<73, 66, 77>>

Tickers ==
    {META, MetaLower, AAPL, MsftMixed, GOOGL, AMZN, TSLA, TslaLower, TEAM, IBM}

\* The chart periods.
Periods == {"1d", "5d", "1mo", "3mo", "6mo", "1y"}

\* The period arguments of generateRealisticStockData, whose parameter is a
\* string: the chart periods, and a string that is none of them.
PeriodArgs == Periods \cup {"max"}

\* ticker.toUpperCase()
toUpperCase(t) ==
    [i \in DOMAIN t |-> IF t[i] \in 97..122 THEN t[i] - 32 ELSE t[i]]

\* ticker.split("").reduce((acc, char) => acc + char.charCodeAt(0), 0)
RECURSIVE SumCodes(_)
SumCodes(t) == IF t = << >> THEN 0 ELSE Head(t) + SumCodes(Tail(t))

seedValue(t) == SumCodes(t)

\* The remainder operator of JavaScript: the sign of the dividend.
JsRem(a, b) == IF a >= 0 THEN a % b ELSE -((-a) % b)

\* Math.sin and Math.cos in thousandths, of an angle x >= 0 given in
\* hundredths of a radian (Bhaskara's approximation of the half wave).
HalfWave(y) == (16000 * y * (314 - y)) \div (493480 - 4 * y * (314 - y))
SinC(x) == IF x % 628 <= 314 THEN HalfWave(x % 628) ELSE -HalfWave((x % 628) - 314)
CosC(x) == SinC(x + 157)
\* Variant: the quote generator compares the ticker as written.
MutQuoteBasePriceCaseSensitive(ticker) ==
    IF ticker = META THEN 587
    ELSE IF ticker = AAPL THEN 198
    ELSE IF ticker = <<77, 83, 70, 84>> THEN 417
    ELSE IF ticker = GOOGL THEN 164
    ELSE IF ticker = AMZN THEN 181
    ELSE IF ticker = TSLA THEN 275
    ELSE (seedValue(ticker) % 500) + 50

\* basePrice of generateAdditionalStockData (the quote snapshot), in dollars.
quoteBasePrice(ticker) ==
    IF toUpperCase(ticker) = META THEN 587
    ELSE IF toUpperCase(ticker) = AAPL THEN 198
    ELSE IF toUpperCase(ticker) = <<77, 83, 70, 84>> THEN 417
    ELSE IF toUpperCase(ticker) = GOOGL THEN 164
    ELSE IF toUpperCase(ticker) = AMZN THEN 181
    ELSE IF toUpperCase(ticker) = TSLA THEN 275
    ELSE (seedValue(ticker) % 500) + 50

\* basePrice of generateRealisticStockData (the series), in dollars.
seriesBasePrice(ticker) ==
    IF toUpperCase(ticker) = META THEN 587
    ELSE IF toUpperCase(ticker) = AAPL THEN 198
    ELSE IF toUpperCase(ticker) = <<77, 83, 70, 84>> THEN 417
    ELSE IF toUpperCase(ticker) = GOOGL THEN 164
    ELSE IF toUpperCase(ticker) = AMZN THEN 181
    ELSE IF toUpperCase(ticker) = TSLA THEN 275
    ELSE (seedValue(ticker) % 500) + 50

\* dataPoints: the number of points of a period.
\* Variant: a period outside the table gets the point count of "1d".
MutDataPointsUnknownIsDay(period) ==
    IF period = "1d" THEN 24
    ELSE IF period = "5d" THEN 40
    ELSE IF period = "1mo" THEN 30
    ELSE IF period = "3mo" THEN 90
    ELSE IF period = "6mo" THEN 26
    ELSE IF period = "1y" THEN 52
    ELSE 24

dataPoints(period) ==
    IF period = "1d" THEN 24
    ELSE IF period = "5d" THEN 40
    ELSE IF period = "1mo" THEN 30
    ELSE IF period = "3mo" THEN 90
    ELSE IF period = "6mo" THEN 26
    ELSE 52

\* volatility, in ten-thousandths: 0.003 .. 0.06, doubled for TSLA and
\* times 0.7 for AAPL and MSFT.
volatility(ticker, period) ==
    LET v == IF period = "1d" THEN 30
             ELSE IF period = "5d" THEN 80
             ELSE IF period = "1mo" THEN 150
             ELSE IF period = "3mo" THEN 250
             ELSE IF period = "6mo" THEN 400
             ELSE 600
    IN  IF toUpperCase(ticker) = TSLA THEN v * 2
        ELSE IF toUpperCase(ticker) = AAPL \/ toUpperCase(ticker) = <<77, 83, 70, 84>>
             THEN (v * 7) \div 10
        ELSE v

\* trend, in thousandths: Math.sin(seed) * 0.5 with seed = seedValue / 100,
\* and the two scripted pairs.
trend(ticker, period) ==
    IF toUpperCase(ticker) = META /\ period = "1d" THEN -200
    ELSE IF toUpperCase(ticker) = AAPL /\ period = "1mo" THEN 300
    ELSE SinC(seedValue(ticker)) \div 2

\* randomFactor + trendFactor + patternFactor of step i, in ten-thousandths.
stepFactor(ticker, period, i) ==
    LET sv == seedValue(ticker)
        vol == volatility(ticker, period)
        randomFactor == ((SinC(i * sv * 5) + CosC(i * sv * 3)) * vol) \div 1000
        trendFactor == (trend(ticker, period) * vol * 8 * i) \div (10000 * dataPoints(period))
        patternFactor == (SinC(i * 20) * vol * 3) \div 10000
    IN  randomFactor + trendFactor + patternFactor

\* One pass of the loop body on the running price (thousandths of a dollar):
\* price = price * (1 + randomFactor + trendFactor + patternFactor).
stepPrice(ticker, period, i, price) ==
    price + (price * stepFactor(ticker, period, i)) \div 10000

\* The running prices after each of the passes lo..hi of the loop, from the
\* price before pass lo (the passes are applied in order, the range being
\* halved).
RECURSIVE walk(_, _, _, _, _)
walk(ticker, period, lo, hi, price) ==
    IF lo = hi THEN <<stepPrice(ticker, period, lo, price)>>
    ELSE LET half == walk(ticker, period, lo, (lo + hi) \div 2, price)
         IN  half \o walk(ticker, period, ((lo + hi) \div 2) + 1, hi, half[Len(half)])

\* The running price after each pass, starting from basePrice.
prices(ticker, period) ==
    walk(ticker, period, 0, dataPoints(period) - 1, seriesBasePrice(ticker) * 1000)

\* The running prices of every ticker and period modelled (computed once:
\* they depend on nothing else).
priceTable == [t \in Tickers |-> [p \in PeriodArgs |-> prices(t, p)]]

\* parseFloat(price.toFixed(2)): the price rounded to cents, in cents.
toFixed2(milli) == (milli + 5) \div 10
\* The wall clock new Date() reads, in whole hours of local time since
\* 2023-01-01 00:00 (a Sunday); no daylight-saving shift in between.
HoursPerDay == 24
WallClocks ==
    LET day(d) == (365 + d) * HoursPerDay
    IN  {day(60) + 9, day(60) + 10, day(61) + 9, day(365) + 23}

\* now.getHours(), and the number of the day the wall clock is in.
getHours(w) == w % HoursPerDay
dayOf(w) == w \div HoursPerDay

\* toLocaleDateString('en-US', { weekday: 'short' })
weekdayShort(w) ==
    <<"Sun", "Mon", "Tue", "Wed", "Thu", "Fri", "Sat">>[(dayOf(w) % 7) + 1]

\* The lengths of the months of 2023 and of 2024.
MonthDays(leap) ==
    <<31, IF leap THEN 29 ELSE 28, 31, 30, 31, 30, 31, 31, 30, 31, 30, 31>>
MonthShort ==
    <<"Jan", "Feb", "Mar", "Apr", "May", "Jun",
      "Jul", "Aug", "Sep", "Oct", "Nov", "Dec">>

\* toLocaleDateString('en-US', { month: 'short', day: 'numeric' }) of day d
\* (d = 0 is 2023-01-01).
RECURSIVE monthDay(_, _, _)
monthDay(d, m, leap) ==
    IF d < MonthDays(leap)[m]
    THEN MonthShort[m] \o " " \o ToString(d + 1)
    ELSE monthDay(d - MonthDays(leap)[m], m + 1, leap)

dateShort(d) ==
    IF d < 365 THEN monthDay(d, 1, FALSE) ELSE monthDay(d - 365, 1, TRUE)

\* `${formattedHour}${amPm}` of the 1d chart.
hourLabel1d(w, i, n) ==
    LET hour == JsRem(getHours(w) + i - n, 24)
        formattedHour == IF JsRem(hour, 12) = 0 THEN 12 ELSE JsRem(hour, 12)
        amPm == IF hour < 12 \/ hour = 24 THEN "AM" ELSE "PM"
    IN  ToString(formattedHour) \o amPm

\* `${day} ${formattedHour}${amPm}` of the 5d chart.
hourLabel5d(w, i, n) ==
    LET date == w - (n - i - 1) * 3
        hour == getHours(date)
        formattedHour == IF hour % 12 = 0 THEN 12 ELSE hour % 12
        amPm == IF hour < 12 THEN "AM" ELSE "PM"
    IN  weekdayShort(date) \o " " \o ToString(formattedHour) \o amPm

\* dateFormat: the label of point i of n when the wall clock reads w.
dateFormat(period, w, i, n) ==
    IF period = "1d" THEN hourLabel1d(w, i, n)
    ELSE IF period = "5d" THEN hourLabel5d(w, i, n)
    ELSE IF period = "1mo" \/ period = "3mo" THEN dateShort(dayOf(w) - (n - i - 1))
    ELSE dateShort(dayOf(w) - (n - i - 1) * 7)

\* generateRealisticStockData(ticker, period) when new Date() reads w: the
\* series of { name, value } points (value in cents).
generateRealisticStockData(ticker, period, w) ==
    LET price == priceTable[ticker][period]
    IN  [i \in 1..dataPoints(period) |->
            [name |-> dateFormat(period, w, i - 1, dataPoints(period)),
             value |-> toFixed2(price[i])]]

\* A number of tenths, and of hundredths, as toFixed(1) and toFixed(2)
\* print it.
fixed1(tenths) == ToString(tenths \div 10) \o "." \o ToString(tenths % 10)
fixed2(hundredths) ==
    ToString(hundredths \div 100) \o "." \o ToString((hundredths % 100) \div 10)
        \o ToString(hundredths % 10)

\* generateAdditionalStockData(ticker): the quote snapshot (price in cents,
\* change in hundredths of a percent).
generateAdditionalStockData(ticker) ==
    LET sv == seedValue(ticker)
        basePrice == quoteBasePrice(ticker)
        price == basePrice * 100 + (SinC(sv * 10) * 2 + 5) \div 10
        volumeBase == sv % 100
        volume == IF volumeBase < 30 THEN fixed1(volumeBase + 5) \o "M"
                  ELSE IF volumeBase < 70 THEN ToString(volumeBase + 10) \o "M"
                  ELSE fixed1(volumeBase + 50) \o "B"
        \* price * (seedValue / 10), in hundredths
        marketCapBase == (price * sv) \div 10
        marketCap == IF marketCapBase < 1000 * 100
                     THEN fixed1((marketCapBase + 50) \div 100) \o "B"
                     ELSE IF marketCapBase < 10000 * 100
                     THEN fixed2((marketCapBase + 500) \div 1000) \o "T"
                     ELSE fixed1((marketCapBase + 5000) \div 10000) \o "T"
        change == (SinC(sv * 20) * 5 + 5) \div 10
    IN  [price |-> price, volume |-> volume, marketCap |-> marketCap,
         change |-> change]

\* The wall clock when the page is opened.
FirstWallClock == (365 + 60) * HoursPerDay + 9

\* Nothing generated yet.
InitSynth ==
    synth = [wall |-> FirstWallClock, ticker |-> << >>, period |-> "",
             basePrice |-> 0, data |-> << >>, again |-> FALSE, before |-> << >>,
             quoteBasePrice |-> 0, stock |-> Null]

\* The wall clock moves on to a later hour.
WallTick(w) ==
    /\ w > synth.wall
    /\ synth' = [synth EXCEPT !.wall = w]
    /\ UNCHANGED exceptSynth

\* fetchChartData produces the data of (ticker, period): a call of
\* generateRealisticStockData(ticker, period), then one of
\* generateAdditionalStockData(ticker).  The history keeps the series of the
\* call before when it had the same arguments.
GenerateStockData(ticker, period) ==
    LET again == synth.ticker = ticker /\ synth.period = period
    IN  /\ synth' = [synth EXCEPT
                        !.ticker = ticker,
                        !.period = period,
                        !.basePrice = seriesBasePrice(ticker),
                        !.data = generateRealisticStockData(ticker, period, synth.wall),
                        !.again = again,
                        !.before = IF again THEN synth.data ELSE << >>,
                        !.quoteBasePrice = quoteBasePrice(ticker),
                        !.stock = Some(generateAdditionalStockData(ticker))]
        /\ UNCHANGED exceptSynth

\* ------------------------------------------------------------- ChartCard
\* ((value / baseValue) - 1) * 100, in hundredths of a percent (values in
\* cents).
relativeChange(value, baseValue) == ((value * 10000) \div baseValue) - 10000

\* `dataPoint.relativeValue === undefined`
relativeUndefined(dataPoint) == "relativeValue" \notin DOMAIN dataPoint

\* forEach(dataPoint => dataPoint.relativeValue = ...): every point gets
\* its change from the first point.
setRelative(data) ==
    [i \in DOMAIN data |->
        Assign(data[i], "relativeValue", relativeChange(data[i].value, data[1].value))]

\* forEach(dataPoint => { if (dataPoint.relativeValue === undefined) ... }):
\* only the points without relativeValue get it.
fillRelative(data) ==
    [i \in DOMAIN data |->
        IF relativeUndefined(data[i])
        THEN Assign(data[i], "relativeValue", relativeChange(data[i].value, data[1].value))
        ELSE data[i]]

\* The sequences of numbers that 21 calls of Math.random() return, in
\* thousandths: all lowest, all highest, and a mixed one.
SimplePoints == 20
RandomStreams ==
    {[i \in 1..(SimplePoints + 1) |-> 0],
     [i \in 1..(SimplePoints + 1) |-> 999],
     [i \in 1..(SimplePoints + 1) |-> (i * 377) % 1000]}

\* generateSimpleFallbackData(): value = 150 + random * 50, then for each of
\* the 20 points value += (random - 0.5) * 10 (values in cents, unrounded
\* below the cent).
RECURSIVE simpleValue(_, _)
simpleValue(random, i) ==
    (IF i = 1 THEN 15000 + random[1] * 5 ELSE simpleValue(random, i - 1))
        + (random[i + 1] - 500)

generateSimpleFallbackData(random, showRelativeChange) ==
    LET data == [i \in 1..SimplePoints |->
                    [name |-> ToString(i) \o "h", value |-> simpleValue(random, i)]]
    IN  IF showRelativeChange THEN setRelative(data) ELSE data

\* The series passed in through the data prop: none of its points, one of
\* its points, or its first point carries a relativeValue of its own, and an
\* empty one.
ProvidedSeries ==
    {<< >>,
     <<[name |-> "a", value |-> 10000], [name |-> "b", value |-> 12500]>>,
     <<[name |-> "a", value |-> 10000],
       [name |-> "b", value |-> 12500, relativeValue |-> 2500]>>,
     <<[name |-> "a", value |-> 10000],
       [name |-> "b", value |-> 12500, relativeValue |-> 700]>>,
     <<[name |-> "a", value |-> 10000, relativeValue |-> 300],
       [name |-> "b", value |-> 12500]>>}
\* The ticker as the string it is.
tickerText(t) ==
    CASE t = META -> "META"
      [] t = MetaLower -> "meta"
      [] t = AAPL -> "AAPL"
      [] t = MsftMixed -> "Msft"
      [] t = GOOGL -> "GOOGL"
      [] t = AMZN -> "AMZN"
      [] t = TSLA -> "TSLA"
      [] t = TslaLower -> "tsla"
      [] t = TEAM -> "TEAM"
      [] t = IBM -> "IBM"
      [] OTHER -> ""

\* dataKey of fetchChartData; an absent cacheKey prop is "".
chartDataKey(cacheKey, ticker, chartPeriod) ==
    IF cacheKey # "" THEN cacheKey \o "_" \o chartPeriod
    ELSE "chart_" \o tickerText(ticker) \o "_" \o chartPeriod

\* The state of a ChartCard that is not mounted.
chartUnmounted ==
    [mounted |-> FALSE, ticker |-> << >>, cacheKey |-> "",
     showRelativeChange |-> TRUE, selectedPeriod |-> "1d",
     chartData |-> Null, loading |-> FALSE, failed |-> FALSE,
     stockInfo |-> Null, canRefreshData |-> TRUE, cooldownTime |-> "",
     usingCache |-> FALSE, source |-> "none", denied |-> FALSE,
     timers |-> {}]

\* No ChartCard is mounted.
InitChart == chart = chartUnmounted

\* The render that follows a state change (lines 473-483): in relative mode
\* the points of chartData without relativeValue get one.
rendered(showRelativeChange, data) ==
    IF showRelativeChange /\ data # << >> THEN fillRelative(data) ELSE data

\* A ChartCard is mounted with a data prop and no ticker: the state it is
\* constructed with, and its effect (lines 167-183).
MountWithData(providedData, showRelativeChange) ==
    /\ ~chart.mounted
    /\ chart' = [chart EXCEPT
                    !.mounted = TRUE,
                    !.showRelativeChange = showRelativeChange,
                    !.chartData =
                        Some(rendered(showRelativeChange,
                                 IF showRelativeChange /\ providedData # << >>
                                 THEN fillRelative(providedData)
                                 ELSE providedData)),
                    !.source = "prop"]
    /\ UNCHANGED exceptChart

\* The history of refreshes after the keys `keys` were marked at time t.
markedAfter(m, keys, t) ==
    [k \in DOMAIN m \cup keys |->
        IF k \in keys
        THEN [at |-> t,
              cooling |-> /\ k \in DOMAIN m
                          /\ t - m[k].at > 0
                          /\ t - m[k].at < REFRESH_COOLDOWN]
        ELSE m[k]]

\* The keys among `keys` marked less than REFRESH_COOLDOWN after their last
\* mark, when they are marked at time t.
tooEarly(m, keys, t) ==
    {k \in keys \cap DOMAIN m : t - m[k].at < REFRESH_COOLDOWN}

\* The history of saves after clearCache(k) for each k of `keys`.
savedAfter(s, keys) ==
    IF "" \in keys THEN EmptyRecord ELSE [k \in DOMAIN s \ keys |-> s[k]]

\* fetchChartData(isRefresh, chartPeriod) of the card c on the store and the
\* refresh times lr, at time t, the wall clock reading w: the card, the store
\* and the refresh times afterwards, and the keys refreshed.  The function
\* has no await: it runs to its end when called.  onDataLoaded, the parent's
\* callback, may throw (callbackThrows); generateSimpleFallbackData then
\* draws `random`.
fetchChartData(c, store, lr, t, w, isRefresh, chartPeriod, callbackThrows, random) ==
    LET dataKey == chartDataKey(c.cacheKey, c.ticker, chartPeriod)
        fallbackData == generateRealisticStockData(c.ticker, chartPeriod, w)
        simpleData == generateSimpleFallbackData(random, c.showRelativeChange)
        shown(data) == IF c.showRelativeChange /\ data # << >>
                       THEN setRelative(data) ELSE data
    IN  IF c.ticker = << >>
        THEN [chart |-> c, cache |-> store, lastRefreshes |-> lr, refreshed |-> {}]
        ELSE IF isRefresh /\ ~canRefreshAt(lr, dataKey, t)
        THEN [chart |-> [c EXCEPT
                            !.cooldownTime =
                                formatCooldown(getRemainingCooldownAt(lr, dataKey, t)),
                            !.denied = TRUE],
              cache |-> store, lastRefreshes |-> lr, refreshed |-> {}]
        ELSE [chart |-> [c EXCEPT
                            !.loading = FALSE,
                            !.failed = callbackThrows,
                            !.canRefreshData = IF isRefresh THEN FALSE ELSE @,
                            !.chartData =
                                Some(rendered(c.showRelativeChange,
                                         IF callbackThrows THEN shown(simpleData)
                                         ELSE shown(fallbackData))),
                            !.usingCache = ~isRefresh,
                            !.stockInfo = Some(generateAdditionalStockData(c.ticker)),
                            !.source = IF callbackThrows THEN "simple" ELSE "synth",
                            !.denied = FALSE,
                            !.timers = IF isRefresh THEN @ \cup {dataKey} ELSE @],
              cache |-> IF isRefresh THEN clearCache(store, <<dataKey>>) ELSE store,
              lastRefreshes |-> IF isRefresh THEN markRefreshed(lr, dataKey, t) ELSE lr,
              refreshed |-> IF isRefresh THEN {dataKey} ELSE {}]

\* A step of the ChartCard that ends in the state r of fetchChartData; the
\* history keeps the payload of the cache entry that the step deleted.
ChartStep(name, args, r) ==
    /\ chart' = r.chart
    /\ cache' = r.cache
    /\ lastRefreshes' = r.lastRefreshes
    /\ marked' = markedAfter(marked, r.refreshed, now)
    /\ early' = early \cup tooEarly(marked, r.refreshed, now)
    /\ saved' = savedAfter(saved, r.refreshed)
    /\ last' = [name |-> name, args |-> args,
                ret |-> IF r.refreshed \cap DOMAIN cache = {} THEN Null
                        ELSE Some(cache[CHOOSE k \in r.refreshed \cap DOMAIN cache : TRUE].data)]
    /\ UNCHANGED <<now, ticks, wiped, exceptCoreChart>>

\* checkCooldown() of the effect of ChartCard, which runs when there is a
\* cacheKey.
chartCheckCooldown(c, lr, t) ==
    LET dataKey == c.cacheKey \o "_" \o c.selectedPeriod
        canRefreshNow == canRefreshAt(lr, dataKey, t)
    IN  IF c.cacheKey = "" THEN c
        ELSE [c EXCEPT
                 !.canRefreshData = canRefreshNow,
                 !.cooldownTime =
                     IF canRefreshNow THEN @
                     ELSE formatCooldown(getRemainingCooldownAt(lr, dataKey, t))]

\* A ChartCard is mounted with a ticker and no data prop: the state it is
\* constructed with, and its effect (lines 167-204), which calls
\* fetchChartData(false, selectedPeriod) and, when there is a cacheKey,
\* checkCooldown().
MountWithTicker(ticker, cacheKey, period, showRelativeChange, callbackThrows, random) ==
    /\ ~chart.mounted
    /\ LET c0 == [chart EXCEPT
                     !.mounted = TRUE, !.ticker = ticker, !.cacheKey = cacheKey,
                     !.selectedPeriod = period,
                     !.showRelativeChange = showRelativeChange,
                     !.loading = TRUE]
           r == fetchChartData(c0, cache, lastRefreshes, now, synth.wall,
                               FALSE, period, callbackThrows, random)
       IN  ChartStep("mount", <<chartDataKey(cacheKey, ticker, period)>>,
                     [r EXCEPT !.chart = chartCheckCooldown(@, lastRefreshes, now)])

\* The Refresh button, or any other call of fetchChartData(isRefresh) for the
\* selected period.
FetchChartData(isRefresh, callbackThrows, random) ==
    /\ chart.mounted
    /\ chart.ticker # << >>
    /\ ChartStep("fetchChartData",
                 <<chartDataKey(chart.cacheKey, chart.ticker, chart.selectedPeriod), isRefresh>>,
                 fetchChartData(chart, cache, lastRefreshes, now, synth.wall,
                                isRefresh, chart.selectedPeriod, callbackThrows, random))

\* handlePeriodChange(newPeriod): setSelectedPeriod and
\* fetchChartData(false, newPeriod); the effect, which depends on
\* selectedPeriod, then runs again: fetchChartData(false, selectedPeriod)
\* and, when there is a cacheKey, checkCooldown() for the new dataKey.
HandlePeriodChange(newPeriod) ==
    /\ chart.mounted
    /\ chart.ticker # << >>
    /\ chart.selectedPeriod # newPeriod
    /\ LET r == fetchChartData([chart EXCEPT !.selectedPeriod = newPeriod],
                               cache, lastRefreshes, now, synth.wall, FALSE,
                               newPeriod, FALSE, [i \in 1..(SimplePoints + 1) |-> 0])
       IN  ChartStep("handlePeriodChange", <<newPeriod>>,
                     [r EXCEPT !.chart = chartCheckCooldown(@, lastRefreshes, now)])

\* Variant: the cooldown timer re-enables the button only when the remaining
\* cooldown is below zero.
MutRefreshTimerStrict(c, lr, t, dataKey) ==
    LET remaining == getRemainingCooldownAt(lr, dataKey, t)
    IN  IF remaining < 0
        THEN [c EXCEPT !.timers = @ \ {dataKey},
                       !.canRefreshData = TRUE,
                       !.cooldownTime = ""]
        ELSE [c EXCEPT !.cooldownTime = formatCooldown(remaining)]

\* The callback of the timer that fetchChartData(true) starts for dataKey
\* (lines 108-117), at time t: the card afterwards.
refreshTimer(c, lr, t, dataKey) ==
    LET remaining == getRemainingCooldownAt(lr, dataKey, t)
    IN  IF remaining <= 0
        THEN [c EXCEPT !.timers = @ \ {dataKey},
                       !.canRefreshData = TRUE,
                       !.cooldownTime = ""]
        ELSE [c EXCEPT !.cooldownTime = formatCooldown(remaining)]

\* A timer started by a refresh fires.
RefreshTimer(dataKey) ==
    /\ chart.mounted
    /\ dataKey \in chart.timers
    /\ ChartStep("refreshTimer", <<dataKey>>,
                 [chart |-> refreshTimer(chart, lastRefreshes, now, dataKey),
                  cache |-> cache, lastRefreshes |-> lastRefreshes,
                  refreshed |-> {}])

\* The timer of the effect fires: checkCooldown().
CooldownTimer ==
    /\ chart.mounted
    /\ chart.ticker # << >>
    /\ chart.cacheKey # ""
    /\ ChartStep("checkCooldown", << >>,
                 [chart |-> chartCheckCooldown(chart, lastRefreshes, now),
                  cache |-> cache, lastRefreshes |-> lastRefreshes,
                  refreshed |-> {}])

\* The ChartCard is unmounted: the cleanup of the effect stops its timer;
\* the timers started by refreshes go on and set the state of a component
\* that is gone.
UnmountChart ==
    /\ chart.mounted
    /\ ChartStep("unmount", << >>,
                 [chart |-> chartUnmounted, cache |-> cache,
                  lastRefreshes |-> lastRefreshes, refreshed |-> {}])

\* The number of clock advances after which the Refresh button is not
\* pressed any more.
MaxTicksTimer == 2

\* The Refresh button of the ChartCard, which is rendered when usingCache
\* holds and enabled when canRefreshData holds and loading does not.
ClickRefresh ==
    /\ ticks < MaxTicksTimer
    /\ chart.usingCache
    /\ chart.canRefreshData
    /\ ~chart.loading
    /\ FetchChartData(TRUE, FALSE, [i \in 1..(SimplePoints + 1) |-> 0])

\* The keys whose cooldown the ChartCard is waiting for.
awaitedKeys ==
    IF ~chart.mounted THEN {}
    ELSE chart.timers \cup
         (IF chart.cacheKey # "" /\ chart.ticker # << >>
          THEN {chart.cacheKey \o "_" \o chart.selectedPeriod} ELSE {})

\* Time passes while the ChartCard waits for a cooldown: up to one
\* millisecond before the end of one, or up to its end.
Pass ==
    \E k \in awaitedKeys :
        \E d \in {getRemainingCooldown(k) - 1, getRemainingCooldown(k)} :
            d > 0 /\ Advance(d)

\* --------------------------------------------------------- provider calls
\* How a request to a provider ends: the transport fails (fetch rejects), the
\* status is not 2xx, the body is no JSON (response.json() rejects), the
\* body is the JSON null, the body is a JSON object without the expected
\* fields, or the body is complete.
Outcomes == {"transport", "status", "unparsable", "null", "noFields", "complete"}

\* The GLOBAL_QUOTE request can also answer { "Global Quote": {} }.
QuoteOutcomes == Outcomes \cup {"emptyQuote"}

\* The first part of `try` of the three fetch functions: the body parsed, or
\* the exception thrown.
parsedBody(outcome) ==
    IF outcome \in {"transport", "status", "unparsable"}
    THEN [thrown |-> TRUE, body |-> ""]
    ELSE [thrown |-> FALSE, body |-> outcome]

\* Variant: fetchStockPredictions lets the exception through.
MutFetchStockPredictionsRethrows(outcome) ==
    IF parsedBody(outcome).thrown
    THEN [state |-> "rejected", value |-> Null]
    ELSE [state |-> "fulfilled",
          value |-> Some([source |-> "provider", body |-> parsedBody(outcome).body])]

\* fetchStockPredictions(stockCode): the promise it returns, settled.  The
\* body is returned as parsed; getMockStockPrediction replaces it when an
\* exception was thrown.
fetchStockPredictions(outcome) ==
    IF parsedBody(outcome).thrown
    THEN [state |-> "fulfilled", value |-> Some([source |-> "mock", body |-> "complete"])]
    ELSE [state |-> "fulfilled",
          value |-> Some([source |-> "provider", body |-> parsedBody(outcome).body])]

\* fetchMarketVolatility(): the same, with mockMarketVolatility.
fetchMarketVolatility(outcome) ==
    IF parsedBody(outcome).thrown
    THEN [state |-> "fulfilled", value |-> Some([source |-> "mock", body |-> "complete"])]
    ELSE [state |-> "fulfilled",
          value |-> Some([source |-> "provider", body |-> parsedBody(outcome).body])]

\* `!data || !data['Global Quote']` of fetchStockQuote.
invalidStructure(body) == body \in {"null", "noFields"}

\* fetchStockQuote goes on to the OVERVIEW request after this outcome of
\* the GLOBAL_QUOTE request.
asksOverview(outcome) ==
    /\ ~parsedBody(outcome).thrown
    /\ ~invalidStructure(parsedBody(outcome).body)

\* fetchStockQuote(symbol): the promise it returns, settled, after the
\* GLOBAL_QUOTE request ended in `outcome` and the OVERVIEW request, when it
\* was made, in `overview`.  A quote without fields is filled with '0'; the
\* market capitalisation is added when the second body carries it, and every
\* failure of the second request is swallowed.
fetchStockQuote(outcome, overview) ==
    IF ~asksOverview(outcome)
    THEN [state |-> "fulfilled", value |-> Null]
    ELSE [state |-> "fulfilled",
          value |-> Some([source |-> "provider",
                          body |-> parsedBody(outcome).body,
                          marketCap |-> overview = "complete"])]

\* The value that a component displays for a quote: `data ? data :
\* getStockFallbackData(ticker)`.
quoteDisplayed(value) ==
    IF value = Null THEN [source |-> "fallback", body |-> "complete", marketCap |-> TRUE]
    ELSE value[1]

\* ------------------------------------------- StockCard, StockDetail, Dashboard
\* The stock that the StockCard and the StockDetail page show.
stock == [ticker |-> IBM]

\* quoteKey, predictionKey and, for StockDetail, chartKey.
quoteKey == "quote_" \o tickerText(toUpperCase(stock.ticker))
predictionKey == "predictions_" \o tickerText(toUpperCase(stock.ticker))
chartKey(chartPeriod) ==
    "chart_" \o tickerText(toUpperCase(stock.ticker)) \o "_" \o chartPeriod

\* The largest number of handler invocations suspended at an await at once.
MaxTasks == 2

\* The state of a StockCard, a StockDetail and a Dashboard that are not
\* mounted.
cardUnmounted ==
    [mounted |-> FALSE, stockData |-> Null, prediction |-> Null,
     loading |-> FALSE, usingCachedData |-> FALSE,
     canRefreshData |-> TRUE, refreshing |-> FALSE, cooldownTime |-> ""]

detailUnmounted ==
    [mounted |-> FALSE, chartPeriod |-> "1d", stockData |-> Null,
     prediction |-> Null, loadingPrediction |-> FALSE,
     loadingStockData |-> FALSE, usingCachedData |-> FALSE,
     canRefreshData |-> TRUE, refreshing |-> FALSE, cooldownTime |-> ""]

dashboardUnmounted ==
    [mounted |-> FALSE, marketVolatility |-> Null, loadingMarketData |-> TRUE]

\* No page is open, no invocation suspended.
InitUi ==
    ui = [page |-> "none",
          card |-> cardUnmounted,
          detail |-> detailUnmounted,
          dashboard |-> dashboardUnmounted,
          tasks |-> EmptyBag,
          settled |-> Null,
          toast |-> ""]

\* An invocation of the function fn suspended at the await of the request
\* pc; `first` is how the GLOBAL_QUOTE request ended when pc is the OVERVIEW
\* request; `orphan` says that the component of the invocation has been
\* unmounted since, so that its state setters have no effect any more.
Task(fn, pc) == [fn |-> fn, pc |-> pc, first |-> "", orphan |-> FALSE]

\* The suspended invocations once their components are unmounted.
orphaned(tasks) ==
    LET old == {[t EXCEPT !.orphan = TRUE] : t \in BagToSet(tasks)}
    IN  [o \in old |->
            CopiesIn(o, tasks) + CopiesIn([o EXCEPT !.orphan = FALSE], tasks)]

\* The bag of suspended invocations with one more, and with one less.
spawn(tasks, task) == tasks (+) SetToBag({task})
retire(tasks, task) == tasks (-) SetToBag({task})

\* checkCooldown() of StockCard and StockDetail: canRefreshData and
\* cooldownTime.
checkCooldown(c, lr, t) ==
    LET canRefreshQuote == canRefreshAt(lr, quoteKey, t)
        canRefreshPrediction == canRefreshAt(lr, predictionKey, t)
        remaining == Max(getRemainingCooldownAt(lr, quoteKey, t),
                         getRemainingCooldownAt(lr, predictionKey, t))
    IN  [c EXCEPT
            !.canRefreshData = canRefreshQuote /\ canRefreshPrediction,
            !.cooldownTime = IF canRefreshQuote /\ canRefreshPrediction THEN ""
                             ELSE formatCooldown(remaining)]

\* clearCache(k) for each k of the sequence `keys`, in order.
RECURSIVE clearEach(_, _)
clearEach(store, keys) ==
    IF keys = << >> THEN store
    ELSE clearEach(clearCache(store, <<Head(keys)>>), Tail(keys))

\* markRefreshed(k) for each k of the sequence `keys`, in order.
RECURSIVE markEach(_, _, _)
markEach(lr, keys, t) ==
    IF keys = << >> THEN lr
    ELSE markEach(markRefreshed(lr, Head(keys), t), Tail(keys), t)

\* The elements of a sequence.
Range(s) == {s[i] : i \in DOMAIN s}

\* A step of a page that ends with the components in the state u, the
\* ChartCard in the state c, the store in the state store, and the keys
\* `keys` cleared and marked.
PageStep(name, u, c, store, keys) ==
    /\ ui' = u
    /\ chart' = c
    /\ early' = early \cup tooEarly(marked, Range(keys), now)
    /\ cache' = store
    /\ lastRefreshes' = markEach(lastRefreshes, keys, now)
    /\ marked' = markedAfter(marked, Range(keys), now)
    /\ saved' = savedAfter(saved, Range(keys))
    /\ last' = [name |-> name, args |-> keys, ret |-> Null]
    /\ UNCHANGED <<now, ticks, wiped, fmt, synth, auth>>

\* A step of StockCard, StockDetail or Dashboard: the ChartCard stays as it
\* is.
UiStep(name, u, store, keys) == PageStep(name, u, chart, store, keys)

\* Variant: fetchData of StockCard saves an entry under quoteKey.
MutCardFetchDataSaves(u, store, t, fn, isRefresh) ==
    LET q == getFromCache(store, quoteKey, t)
        p == getFromCache(q.cache, predictionKey, t)
    IN  [ui |-> [u EXCEPT
                    !.card.loading = TRUE,
                    !.card.usingCachedData =
                        (q.ret # Null \/ p.ret # Null) /\ ~isRefresh,
                    !.tasks = spawn(@, Task(fn, "quote"))],
         cache |-> saveToCache(p.cache, quoteKey, "v1", t)]

\* fetchData(isRefresh) of StockCard up to its first await: the two cache
\* reads (which evict what has expired), the flags, and the quote request.
cardFetchData(u, store, t, fn, isRefresh) ==
    LET q == getFromCache(store, quoteKey, t)
        p == getFromCache(q.cache, predictionKey, t)
    IN  [ui |-> [u EXCEPT
                    !.card.loading = TRUE,
                    !.card.usingCachedData =
                        (q.ret # Null \/ p.ret # Null) /\ ~isRefresh,
                    !.tasks = spawn(@, Task(fn, "quote"))],
         cache |-> p.cache]

\* The route "/" is opened: the components of the other page are unmounted,
\* StockCard and Dashboard are mounted, and their effects run, the child's
\* first: fetchData() and checkCooldown() of StockCard, loadMarketData() of
\* Dashboard.
OpenDashboard ==
    /\ ui.page # "dashboard"
    /\ BagCardinality(ui.tasks) + 2 <= MaxTasks
    /\ LET u0 == [ui EXCEPT
                     !.page = "dashboard",
                     !.tasks = orphaned(@),
                     !.detail = detailUnmounted,
                     !.card = [cardUnmounted EXCEPT !.mounted = TRUE],
                     !.dashboard = [dashboardUnmounted EXCEPT !.mounted = TRUE]]
           r == cardFetchData(u0, cache, now, "StockCard.fetchData", FALSE)
       IN  PageStep("Dashboard.open",
                    [r.ui EXCEPT
                        !.card = checkCooldown(@, lastRefreshes, now),
                        !.tasks = spawn(@, Task("Dashboard.loadMarketData",
                                                "volatility"))],
                    chartUnmounted, r.cache, << >>)

\* Variant: handleRefresh of StockCard does not ask canRefresh.
MutCardHandleRefreshUnchecked ==
    /\ ui.card.mounted
    /\ BagCardinality(ui.tasks) < MaxTasks
    /\ LET r == cardFetchData(
                    [ui EXCEPT !.card.refreshing = TRUE,
                               !.card.canRefreshData = FALSE],
                    clearEach(cache, <<quoteKey, predictionKey>>), now,
                    "StockCard.handleRefresh", TRUE)
       IN  UiStep("StockCard.handleRefresh", r.ui, r.cache,
                  <<quoteKey, predictionKey>>)

\* handleRefresh of StockCard up to its first await.
CardHandleRefresh ==
    /\ ui.card.mounted
    /\ IF ~canRefresh(quoteKey) \/ ~canRefresh(predictionKey)
       THEN UiStep("StockCard.handleRefresh.denied",
                   [ui EXCEPT !.toast =
                       formatCooldown(Max(getRemainingCooldown(quoteKey),
                                          getRemainingCooldown(predictionKey)))],
                   cache, << >>)
       ELSE /\ BagCardinality(ui.tasks) < MaxTasks
            /\ LET r == cardFetchData(
                            [ui EXCEPT !.card.refreshing = TRUE,
                                       !.card.canRefreshData = FALSE],
                            clearEach(cache, <<quoteKey, predictionKey>>), now,
                            "StockCard.handleRefresh", TRUE)
               IN  UiStep("StockCard.handleRefresh", r.ui, r.cache,
                          <<quoteKey, predictionKey>>)

\* fetchStockData(isRefresh) of StockDetail up to its await.
detailFetchStockData(u, store, t, fn, isRefresh) ==
    LET q == getFromCache(store, quoteKey, t)
    IN  [ui |-> [u EXCEPT
                    !.detail.loadingStockData = TRUE,
                    !.detail.usingCachedData = IF isRefresh THEN @ ELSE q.ret # Null,
                    !.tasks = spawn(@, Task(fn, "quote"))],
         cache |-> IF isRefresh THEN store ELSE q.cache]

\* fetchPredictionData(isRefresh) of StockDetail up to its await.
detailFetchPredictionData(u, fn) ==
    [u EXCEPT !.detail.loadingPrediction = TRUE,
              !.tasks = spawn(@, Task(fn, "prediction"))]

\* The random numbers of generateSimpleFallbackData, which the ChartCard of
\* StockDetail never draws: it is given no onDataLoaded.
noRandom == [i \in 1..(SimplePoints + 1) |-> 0]

\* The route "/stocks/:id" is opened: the components of the other page are
\* unmounted, StockDetail and its ChartCard (ticker, period and cacheKey =
\* chartKey are its props, part_006:330-336) are mounted, and their effects
\* run, the child's first: fetchChartData(false, selectedPeriod) and
\* checkCooldown() of ChartCard, then fetchStockData(),
\* fetchPredictionData() and checkCooldown() of StockDetail.
OpenDetail ==
    /\ ui.page # "detail"
    /\ BagCardinality(ui.tasks) + 2 <= MaxTasks
    /\ LET p == detailUnmounted.chartPeriod
           c0 == [chartUnmounted EXCEPT
                     !.mounted = TRUE, !.ticker = stock.ticker,
                     !.cacheKey = chartKey(p), !.selectedPeriod = p,
                     !.loading = TRUE]
           rc == fetchChartData(c0, cache, lastRefreshes, now, synth.wall,
                                FALSE, p, FALSE, noRandom)
           u0 == [ui EXCEPT
                     !.page = "detail",
                     !.tasks = orphaned(@),
                     !.card = cardUnmounted,
                     !.dashboard = dashboardUnmounted,
                     !.detail = [detailUnmounted EXCEPT !.mounted = TRUE]]
           r == detailFetchStockData(u0, rc.cache, now,
                                     "StockDetail.fetchStockData", FALSE)
           u == detailFetchPredictionData(r.ui, "StockDetail.fetchPredictionData")
       IN  PageStep("StockDetail.open",
                    [u EXCEPT !.detail = checkCooldown(@, lastRefreshes, now)],
                    chartCheckCooldown(rc.chart, lastRefreshes, now),
                    r.cache, << >>)

\* A period button of StockDetail: setChartPeriod(p).  The ChartCard of the
\* page gets the new chartKey as its cacheKey prop, and its effect runs
\* again (fetchChartData(false, selectedPeriod), checkCooldown()).
SetChartPeriod(p) ==
    /\ ui.detail.mounted
    /\ ui.detail.chartPeriod # p
    /\ LET rc == fetchChartData([chart EXCEPT !.cacheKey = chartKey(p)],
                                cache, lastRefreshes, now, synth.wall, FALSE,
                                chart.selectedPeriod, FALSE, noRandom)
       IN  PageStep("StockDetail.setChartPeriod",
                    [ui EXCEPT !.detail.chartPeriod = p],
                    chartCheckCooldown(rc.chart, lastRefreshes, now),
                    rc.cache, << >>)

\* The Refresh button of the ChartCard of StockDetail.
RefreshDetailChart ==
    /\ ui.detail.mounted
    /\ FetchChartData(TRUE, FALSE, noRandom)

\* The refresh button of StockCard and of StockDetail is rendered
\* (`{usingCachedData && (...)}`).
cardRefreshShown == ui.card.mounted /\ ui.card.usingCachedData
detailRefreshShown == ui.detail.mounted /\ ui.detail.usingCachedData

\* The number of clock advances explored with the components.
MaxTicksUi == 1

\* The amounts by which the clock advances between two steps of the
\* components: one millisecond less than the cooldown, and the cooldown.
UiClockSteps == {REFRESH_COOLDOWN - 1, REFRESH_COOLDOWN}

TickUi(d) == ticks < MaxTicksUi /\ Advance(d)

\* Variant: handleRefresh of StockDetail does not ask canRefresh.
MutDetailHandleRefreshUnchecked ==
    /\ ui.detail.mounted
    /\ BagCardinality(ui.tasks) < MaxTasks
    /\ LET keys == <<quoteKey, predictionKey, chartKey(ui.detail.chartPeriod)>>
           r == detailFetchStockData(
                    [ui EXCEPT !.detail.refreshing = TRUE,
                               !.detail.canRefreshData = FALSE],
                    clearEach(cache, keys), now,
                    "StockDetail.handleRefresh", TRUE)
       IN  UiStep("StockDetail.handleRefresh", r.ui, r.cache, keys)

\* handleRefresh of StockDetail up to its first await.
DetailHandleRefresh ==
    /\ ui.detail.mounted
    /\ IF ~canRefresh(quoteKey) \/ ~canRefresh(predictionKey)
       THEN UiStep("StockDetail.handleRefresh.denied",
                   [ui EXCEPT !.toast =
                       formatCooldown(Max(getRemainingCooldown(quoteKey),
                                          getRemainingCooldown(predictionKey)))],
                   cache, << >>)
       ELSE /\ BagCardinality(ui.tasks) < MaxTasks
            /\ LET keys == <<quoteKey, predictionKey, chartKey(ui.detail.chartPeriod)>>
                   r == detailFetchStockData(
                            [ui EXCEPT !.detail.refreshing = TRUE,
                                       !.detail.canRefreshData = FALSE],
                            clearEach(cache, keys), now,
                            "StockDetail.handleRefresh", TRUE)
               IN  UiStep("StockDetail.handleRefresh", r.ui, r.cache, keys)

\* The continuation of a suspended invocation once fetchStockQuote has
\* settled with `promise`: the components and the invocation afterwards
\* (Null when it has returned).
afterQuote(u, task, promise) ==
    LET shown == Some(quoteDisplayed(promise.value))
        failed == promise.state = "rejected"
    IN  CASE task.fn \in {"StockCard.fetchData", "StockCard.handleRefresh"} ->
               IF failed
               THEN [ui |-> [u EXCEPT !.card.loading = FALSE,
                                      !.card.refreshing =
                                          IF task.fn = "StockCard.handleRefresh"
                                          THEN FALSE ELSE @],
                     next |-> Null]
               ELSE [ui |-> [u EXCEPT !.card.stockData = shown],
                     next |-> Some(Task(task.fn, "prediction"))]
          [] task.fn = "StockDetail.fetchStockData" ->
               [ui |-> [u EXCEPT !.detail.stockData = shown,
                                 !.detail.loadingStockData = FALSE],
                next |-> Null]
          [] task.fn = "StockDetail.handleRefresh" ->
               [ui |-> [u EXCEPT !.detail.stockData = shown,
                                 !.detail.loadingStockData = FALSE,
                                 !.detail.loadingPrediction = TRUE],
                next |-> Some(Task(task.fn, "prediction"))]

\* Variant: the functions that await fetchStockPredictions have no finally
\* block, so that an exception after the await leaves their flags set.
MutAfterPredictionNoFinally(u, task, promise) ==
    LET failed == promise.state = "rejected"
        data == promise.value
        isNull == failed \/ data[1].body = "null"
    IN  IF task.fn \in {"StockCard.fetchData", "StockCard.handleRefresh"}
        THEN [u EXCEPT
                 !.card.prediction = IF isNull THEN @ ELSE data,
                 !.card.loading = FALSE,
                 !.card.refreshing =
                     IF task.fn = "StockCard.handleRefresh" THEN FALSE ELSE @]
        ELSE [u EXCEPT
                 !.detail.prediction = IF failed THEN @ ELSE data,
                 !.toast = IF isNull THEN "Failed to load predictions" ELSE @,
                 !.detail.loadingPrediction = IF isNull THEN @ ELSE FALSE,
                 !.detail.refreshing =
                     IF task.fn = "StockDetail.handleRefresh" /\ ~isNull
                     THEN FALSE ELSE @]

\* The continuation once fetchStockPredictions has settled with `promise`.
afterPrediction(u, task, promise) ==
    LET failed == promise.state = "rejected"
        data == promise.value
        isNull == failed \/ data[1].body = "null"
    IN  IF task.fn \in {"StockCard.fetchData", "StockCard.handleRefresh"}
        THEN [u EXCEPT
                 !.card.prediction = IF isNull THEN @ ELSE data,
                 !.card.loading = FALSE,
                 !.card.refreshing =
                     IF task.fn = "StockCard.handleRefresh" THEN FALSE ELSE @]
        ELSE [u EXCEPT
                 !.detail.prediction = IF failed THEN @ ELSE data,
                 !.toast = IF isNull THEN "Failed to load predictions" ELSE @,
                 !.detail.loadingPrediction = FALSE,
                 !.detail.refreshing =
                     IF task.fn = "StockDetail.handleRefresh" THEN FALSE ELSE @]

\* The continuation of loadMarketData once fetchMarketVolatility has settled.
afterVolatility(u, promise) ==
    [u EXCEPT
        !.dashboard.marketVolatility =
            IF promise.state = "rejected" \/ promise.value[1].body = "null"
            THEN @ ELSE promise.value,
        !.dashboard.loadingMarketData = FALSE]

\* The request that the invocation `task` awaits ends in `outcome`, and the
\* invocation runs on to its next await or to its end.  The state setters of
\* an unmounted component do nothing; toast is not one of them.
Settle(task, outcome) ==
    /\ BagIn(task, ui.tasks)
    /\ outcome \in IF task.pc = "quote" THEN QuoteOutcomes ELSE Outcomes
    /\ LET rest == retire(ui.tasks, task)
           set(u) == IF task.orphan THEN [ui EXCEPT !.toast = u.toast] ELSE u
           follow(next) ==
               IF next = Null THEN rest
               ELSE spawn(rest, [next[1] EXCEPT !.orphan = task.orphan])
           done(fn, promise, shown) ==
               Some([fn |-> fn, task |-> task.fn, first |-> task.first,
                     outcome |-> outcome,
                     state |-> promise.state, value |-> promise.value,
                     shown |-> shown])
       IN  CASE task.pc = "quote" /\ asksOverview(outcome) ->
                  UiStep("settle",
                         [ui EXCEPT !.tasks =
                             spawn(rest, [task EXCEPT !.pc = "overview",
                                                      !.first = outcome])],
                         cache, << >>)
             [] task.pc = "quote" /\ ~asksOverview(outcome) ->
                  LET promise == fetchStockQuote(outcome, "")
                      r == afterQuote(ui, task, promise)
                  IN  UiStep("settle",
                             [set(r.ui) EXCEPT
                                 !.tasks = follow(r.next),
                                 !.settled = done("fetchStockQuote", promise,
                                                  quoteDisplayed(promise.value).source)],
                             cache, << >>)
             [] task.pc = "overview" ->
                  LET promise == fetchStockQuote(task.first, outcome)
                      r == afterQuote(ui, task, promise)
                  IN  UiStep("settle",
                             [set(r.ui) EXCEPT
                                 !.tasks = follow(r.next),
                                 !.settled = done("fetchStockQuote", promise,
                                                  quoteDisplayed(promise.value).source)],
                             cache, << >>)
             [] task.pc = "prediction" ->
                  LET promise == fetchStockPredictions(outcome)
                  IN  UiStep("settle",
                             [set(afterPrediction(ui, task, promise)) EXCEPT
                                 !.tasks = rest,
                                 !.settled = done("fetchStockPredictions", promise,
                                                  IF promise.state = "rejected" THEN "none"
                                                  ELSE promise.value[1].source)],
                             cache, << >>)
             [] task.pc = "volatility" ->
                  LET promise == fetchMarketVolatility(outcome)
                  IN  UiStep("settle",
                             [set(afterVolatility(ui, promise)) EXCEPT
                                 !.tasks = rest,
                                 !.settled = done("fetchMarketVolatility", promise,
                                                  IF promise.state = "rejected" THEN "none"
                                                  ELSE promise.value[1].source)],
                             cache, << >>)

\* ------------------------------------------------ AuthProvider, ProtectedRoute
\* const mockUsers, by email.
AdminEmail == "admin@example.com"
UserEmail == "user@example.com"
mockUsers ==
    <<[id |-> "1", email |-> AdminEmail, password |-> "password",
       name |-> "Admin User", role |-> "admin"],
      [id |-> "2", email |-> UserEmail, password |-> "password",
       name |-> "Regular User", role |-> "user"]>>

\* The emails, passwords and names that the forms send.
Emails == {AdminEmail, UserEmail, "new@example.com"}
Passwords == {"password", "wrong"}
Names == {"New User"}

\* The number of timers of login and register that wait at one time.
MaxPending == 2

\* JSON.stringify of a User, and JSON.parse of the text.
stringify(u) == <<"id", u.id, "email", u.email, "name", u.name, "role", u.role>>
parse(s) == [id |-> s[2], email |-> s[4], name |-> s[6], role |-> s[8]]

\* The state after construction: useState(null), useState(true), and an
\* empty localStorage.
InitAuth ==
    auth = [user |-> Null, loading |-> TRUE, storage |-> Null,
            pending |-> << >>, cleared |-> FALSE]

\* An operation of AuthProvider: what it leaves alone, and the record of it.
AuthStep(name, args, ret, a) ==
    /\ auth' = a
    /\ last' = [name |-> name, args |-> args, ret |-> ret]
    /\ UNCHANGED exceptAuth

\* The effect of AuthProvider after its first render.
AuthEffect ==
    /\ auth.loading
    /\ AuthStep("useEffect", << >>, Null,
                [auth EXCEPT !.user = IF auth.storage # Null
                                      THEN Some(parse(auth.storage[1]))
                                      ELSE @,
                             !.loading = FALSE])

\* login(email, password): the timer of 800 ms is set.
Login(email, password) ==
    /\ ~auth.loading
    /\ Len(auth.pending) < MaxPending
    /\ AuthStep("login", <<email, password>>, Null,
                [auth EXCEPT !.pending = Append(@, [fn |-> "login",
                                                    email |-> email,
                                                    password |-> password,
                                                    name |-> ""]),
                             !.cleared = FALSE])

\* register(email, password, name): the timer of 800 ms is set.
Register(email, password, name) ==
    /\ ~auth.loading
    /\ Len(auth.pending) < MaxPending
    /\ AuthStep("register", <<email, password, name>>, Null,
                [auth EXCEPT !.pending = Append(@, [fn |-> "register",
                                                    email |-> email,
                                                    password |-> password,
                                                    name |-> name]),
                             !.cleared = FALSE])

\* The mock users that a login matches.
found(email, password) ==
    {i \in 1..Len(mockUsers) : /\ mockUsers[i].email = email
                                /\ mockUsers[i].password = password}

\* foundUser without its password.
userWithoutPassword(u) ==
    [id |-> u.id, email |-> u.email, name |-> u.name, role |-> u.role]

\* The callback of the timer of a login: AuthProvider afterwards, and
\* whether the promise resolved.
loginTimer(a, call) ==
    LET hits == found(call.email, call.password)
    IN  IF hits # {}
        THEN LET i == CHOOSE j \in hits : \A k \in hits : j <= k
                 u == userWithoutPassword(mockUsers[i])
             IN  [auth |-> [a EXCEPT !.user = Some(u),
                                     !.storage = Some(stringify(u))],
                  ret |-> "resolved"]
        ELSE [auth |-> a, ret |-> "rejected"]

\* The callback of the timer of a register.
registerTimer(a, call) ==
    IF \E i \in 1..Len(mockUsers) : mockUsers[i].email = call.email
    THEN [auth |-> a, ret |-> "rejected"]
    ELSE LET newUser == [id |-> ToString(Len(mockUsers) + 1),
                         email |-> call.email, name |-> call.name,
                         role |-> "user"]
         IN  [auth |-> [a EXCEPT !.user = Some(newUser),
                                 !.storage = Some(stringify(newUser))],
              ret |-> "resolved"]

\* The timer set first fires: all of them wait 800 ms.
AuthTimer ==
    /\ auth.pending # << >>
    /\ LET call == Head(auth.pending)
           a == [auth EXCEPT !.pending = Tail(@)]
           r == IF call.fn = "login" THEN loginTimer(a, call)
                                     ELSE registerTimer(a, call)
       IN  AuthStep(call.fn \o "Timer", <<call.email, call.password, call.name>>,
                    r.ret, r.auth)

\* logout().
Logout ==
    /\ ~auth.loading
    /\ AuthStep("logout", << >>, Null,
                [auth EXCEPT !.user = Null, !.storage = Null,
                             !.cleared = TRUE])

\* The page is loaded again: the state and the timers are gone,
\* localStorage is kept.
Reload ==
    /\ ~auth.loading
    /\ AuthStep("reload", << >>, Null,
                [auth EXCEPT !.user = Null, !.loading = TRUE,
                             !.pending = << >>])

\* const isAdmin = user?.role === "admin".
isAdmin(a) == a.user # Null /\ a.user[1].role = "admin"

\* Variant: ProtectedRoute lets every user that is logged in through.
MutProtectedRouteAnyUser(a) ==
    IF a.loading THEN "Loading..."
    ELSE IF a.user = Null THEN "/login"
    ELSE "children"

\* What ProtectedRoute renders: the placeholder, a Navigate, or its children.
ProtectedRoute(a) ==
    IF a.loading THEN "Loading..."
    ELSE IF a.user = Null THEN "/login"
    ELSE IF ~isAdmin(a) THEN "/"
    ELSE "children"

\* The route /admin is rendered.
VisitAdmin ==
    AuthStep("ProtectedRoute", << >>, ProtectedRoute(auth), auth)

\* ---------------------------------------------------------- specifications
\* Nothing formatted yet but the zero duration.
InitFormat == fmt = [ms |-> 0, out |-> formatCooldown(0)]


Init ==
    /\ InitCache
    /\ InitFormat
    /\ InitSynth
    /\ InitChart
    /\ InitUi
    /\ InitAuth
    /\ early = {}

\* The cache alone.
NextCache ==
    \/ \E d \in ClockSteps : Tick(d)
    \/ \E k \in Keys : GetFromCache(k)
    \/ \E k \in Keys : \E v \in Payloads : SaveToCache(k, v)
    \/ \E a \in ClearArgs : ClearCache(a)

SpecCache == Init /\ [][NextCache]_vars

\* The refresh governor alone.
NextGov ==
    \/ \E d \in ClockSteps : Tick(d)
    \/ \E k \in Keys : MarkRefreshed(k)

SpecGov == Init /\ [][NextGov]_vars

\* The whole module: cache and governor operations in any order.
Next ==
    \/ \E d \in ClockSteps : TickBoth(d)
    \/ \E k \in Keys : GetFromCache(k)
    \/ \E k \in Keys : \E v \in Payloads : SaveToCache(k, v)
    \/ \E a \in ClearArgs : ClearCache(a)
    \/ \E k \in Keys : MarkRefreshed(k)

Spec == Init /\ [][Next]_vars

\* The formatter alone.
NextFormat == \E ms \in FormatInputs : FormatCooldown(ms)

SpecFormat == Init /\ [][NextFormat]_vars

\* The synthesizer alone.
NextSynth ==
    \/ \E w \in WallClocks : WallTick(w)
    \/ \E t \in Tickers : \E p \in PeriodArgs : GenerateStockData(t, p)

SpecSynth == Init /\ [][NextSynth]_vars

\* A ChartCard and the series it displays.
NextRelative ==
    \/ \E d \in ProvidedSeries : \E s \in BOOLEAN : MountWithData(d, s)
    \/ \E t \in Tickers : \E k \in {"", "nifty50_chart"} : \E p \in Periods :
       \E s \in BOOLEAN : \E x \in BOOLEAN : \E r \in RandomStreams :
           MountWithTicker(t, k, p, s, x, r)
    \/ \E i \in BOOLEAN : \E x \in BOOLEAN : \E r \in RandomStreams :
           FetchChartData(i, x, r)

SpecRelative == Init /\ [][NextRelative]_vars

\* The components are mounted and the provider calls of their effects
\* settle in every way.
NextFetch ==
    \/ OpenDashboard
    \/ OpenDetail
    \/ \E t \in BagToSet(ui.tasks) : \E o \in QuoteOutcomes : Settle(t, o)

SpecFetch == Init /\ [][NextFetch]_vars

\* The refresh handlers of the three components, and the clock.
NextRefresh ==
    \/ \E d \in UiClockSteps : TickUi(d)
    \/ OpenDashboard
    \/ CardHandleRefresh
    \/ OpenDetail
    \/ \E p \in {"1d", "5d"} : SetChartPeriod(p)
    \/ DetailHandleRefresh
    \/ RefreshDetailChart
    \/ \E t \in BagToSet(ui.tasks) : Settle(t, "transport")

SpecRefresh == Init /\ [][NextRefresh]_vars

\* The dataKey of the ChartCard of StockDetail for the period "1d".
DetailChartKey == chartDataKey(chartKey("1d"), stock.ticker, "1d")

\* The keys under which another caller of the cache module saves while the
\* pages are used: the dataKey of the ChartCard of StockDetail, and quoteKey.
StoreKeys == {DetailChartKey, quoteKey}

\* The refresh handlers of the three components on a cache that holds
\* entries, and the clock.
NextStore ==
    \/ \E d \in UiClockSteps : TickUi(d)
    \/ \E k \in StoreKeys : SaveToCache(k, "v1")
    \/ OpenDashboard
    \/ CardHandleRefresh
    \/ OpenDetail
    \/ DetailHandleRefresh
    \/ RefreshDetailChart
    \/ \E t \in BagToSet(ui.tasks) : Settle(t, "transport")

SpecStore == Init /\ [][NextStore]_vars

\* The pages are opened, their handlers are invoked, and the provider calls
\* settle in every way.
NextLoading ==
    \/ OpenDashboard
    \/ CardHandleRefresh
    \/ OpenDetail
    \/ DetailHandleRefresh
    \/ RefreshDetailChart
    \/ \E t \in BagToSet(ui.tasks) : \E o \in QuoteOutcomes : Settle(t, o)

\* A provider call that is pending settles in the end: the browser answers
\* a fetch or fails it.  Nothing obliges the user to open a page or to press
\* a button.
SettleSome == \E t \in BagToSet(ui.tasks) : \E o \in QuoteOutcomes : Settle(t, o)

SpecLoading == Init /\ [][NextLoading]_vars /\ WF_vars(SettleSome)

\* The 24 hours of one day as wall clock readings.
DayClocks == {(365 + 61) * HoursPerDay + h : h \in 0..(HoursPerDay - 1)}

\* The synthesizer of the 1d chart at every hour of a day.
NextHours ==
    \/ \E w \in DayClocks : WallTick(w)
    \/ \E t \in {META, IBM} : GenerateStockData(t, "1d")

SpecHours == Init /\ [][NextHours]_vars

\* The cache saved to and read in both ways, and the clock.
NextRead ==
    \/ \E d \in ClockSteps : Tick(d)
    \/ \E k \in Keys : GetFromCache(k)
    \/ \E k \in Keys : GetCacheAge(k)
    \/ \E k \in Keys : \E v \in Payloads : SaveToCache(k, v)

SpecRead == Init /\ [][NextRead]_vars

\* A ChartCard, its Refresh button, its period buttons and its timers.
NextTimer ==
    \/ \E k \in {"", "nifty50_chart"} :
           MountWithTicker(IBM, k, "1d", TRUE, FALSE,
                           [i \in 1..(SimplePoints + 1) |-> 0])
    \/ UnmountChart
    \/ ClickRefresh
    \/ \E p \in {"1d", "5d"} : HandlePeriodChange(p)
    \/ \E k \in chart.timers : RefreshTimer(k)
    \/ CooldownTimer
    \/ Pass

\* A timer that is set fires again and again, and time passes.
SpecTimer ==
    /\ Init
    /\ [][NextTimer]_vars
    /\ WF_vars(\E k \in chart.timers : RefreshTimer(k))
    /\ WF_vars(CooldownTimer)
    /\ WF_vars(Pass)

\* AuthProvider and the route /admin.
NextAuth ==
    \/ AuthEffect
    \/ \E e \in Emails : \E p \in Passwords : Login(e, p)
    \/ \E e \in Emails : \E n \in Names : Register(e, "password", n)
    \/ AuthTimer
    \/ Logout
    \/ Reload
    \/ VisitAdmin

SpecAuth == Init /\ [][NextAuth]_vars

\* ------------------------------------------------------------------ claims
\* The key of the last operation (its first argument).
LastKey == last.args[1]

\* C1: a getFromCache(k) that follows a saveToCache(k, v), with no write or
\* clear of k in between, returns v when at most CACHE_DURATION has elapsed
\* since the save (0 and exactly CACHE_DURATION included) and null when more
\* has elapsed.
C1_GetReturnsSavedWithinTtl ==
    (last.name = "getFromCache" /\ LastKey \in DOMAIN saved) =>
        LET s == saved[LastKey]
        IN  last.ret = IF now - s.timestamp <= CACHE_DURATION
                       THEN Some(s.data) ELSE Null

\* C1 witness: a read exactly CACHE_DURATION after the save returned the payload.
C1_Witness ==
    /\ last.name = "getFromCache"
    /\ LastKey \in DOMAIN saved
    /\ now - saved[LastKey].timestamp = CACHE_DURATION
    /\ last.ret = Some(saved[LastKey].data)

\* C2: right after markRefreshed(k) at time t, canRefresh(k) is false and
\* getRemainingCooldown(k) is REFRESH_COOLDOWN; canRefresh(k) stays false at
\* every time before t + REFRESH_COOLDOWN; from t + REFRESH_COOLDOWN on it is
\* true and getRemainingCooldown(k) is 0.
C2_CooldownWindow ==
    \A k \in DOMAIN marked :
        LET t == marked[k].at IN
        /\ (last.name = "markRefreshed" /\ LastKey = k) =>
               (~canRefresh(k) /\ getRemainingCooldown(k) = REFRESH_COOLDOWN)
        /\ now < t + REFRESH_COOLDOWN => ~canRefresh(k)
        /\ now >= t + REFRESH_COOLDOWN =>
               (canRefresh(k) /\ getRemainingCooldown(k) = 0)

\* C2 witness: the clock stands exactly REFRESH_COOLDOWN after a recorded
\* refresh, and the refresh is allowed again.
C2_Witness ==
    \E k \in DOMAIN marked :
        /\ now = marked[k].at + REFRESH_COOLDOWN
        /\ canRefresh(k)
        /\ getRemainingCooldown(k) = 0

\* C3: for a key that markRefreshed was never called on, canRefresh is true
\* at every clock value.
C3_NeverRefreshedCanRefresh ==
    \A k \in Keys : k \notin DOMAIN marked => canRefresh(k)

\* C4: getRemainingCooldown(k) is max(0, REFRESH_COOLDOWN - (now - t)) when
\* a refresh of k was recorded at t, is 0 when none was ever recorded, and is
\* never negative.
C4_RemainingCooldownValue ==
    \A k \in Keys :
        /\ getRemainingCooldown(k) >= 0
        /\ getRemainingCooldown(k) =
               IF k \in DOMAIN marked
               THEN Max(0, REFRESH_COOLDOWN - (now - marked[k].at))
               ELSE 0

\* C5: clearCache(k) with a key k removes the entry of k if there is one
\* and leaves every other entry as it was.
C5_ClearRemovesOnlyKey ==
    [][(last'.name = "clearCache" /\ Len(last'.args) = 1) =>
           cache' = Delete(cache, last'.args[1])]_vars

\* C6: after clearCache() without argument the cache holds no entry, and
\* getFromCache(k) returns null for every key until k is saved again.
C6_ClearAllEmpties ==
    /\ (last.name = "clearCache" /\ last.args = << >>) =>
           \A k \in Keys : getCacheAge(cache, k, now) = Null
    /\ \A k \in wiped : getCacheAge(cache, k, now) = Null
    /\ (last.name = "getFromCache" /\ LastKey \in wiped) => last.ret = Null

\* C6 witness: a read of a key that was saved and then cleared by clearCache().
C6_Witness ==
    /\ last.name = "getFromCache"
    /\ LastKey \in wiped
    /\ wiped = Keys

\* C7: saveToCache(k, v2) on a key that holds (v1, t1) replaces the payload
\* and restarts the lifetime at the time t2 of the call: a later
\* getFromCache(k) returns v2 until t2 + CACHE_DURATION, also when
\* t1 + CACHE_DURATION has passed.
C7_OverwriteResetsEntry ==
    /\ last.name = "saveToCache" =>
           /\ getCacheAge(cache, LastKey, now) = Some(0)
           /\ cache[LastKey].data = last.args[2]
    /\ (/\ last.name = "getFromCache"
        /\ LastKey \in DOMAIN saved
        /\ saved[LastKey].prev # Null
        /\ now - saved[LastKey].timestamp <= CACHE_DURATION) =>
           last.ret = Some(saved[LastKey].data)

\* C7 witness: the first payload had expired when the key was saved again
\* with another payload, and a read CACHE_DURATION later returned the second.
C7_Witness ==
    /\ last.name = "getFromCache"
    /\ LastKey \in DOMAIN saved
    /\ saved[LastKey].prevExpired
    /\ saved[LastKey].prev # Some(saved[LastKey].data)
    /\ now - saved[LastKey].timestamp = CACHE_DURATION
    /\ last.ret = Some(saved[LastKey].data)

\* C8: getFromCache(k) on an entry older than CACHE_DURATION removes it
\* (getCacheAge(k) is null afterwards) and leaves the other entries as they
\* were; nothing but such a read, or a clearCache, removes an entry, so an
\* expired entry that is not read stays in the store.
C8_LazyEviction ==
    [][/\ last'.name = "getFromCache" =>
           LET k == last'.args[1] IN
           /\ (/\ getCacheAge(cache, k, now) # Null
               /\ getCacheAge(cache, k, now)[1] > CACHE_DURATION) =>
                  getCacheAge(cache', k, now') = Null
           /\ \A k2 \in Keys \ {k} :
                  /\ k2 \in DOMAIN cache <=> k2 \in DOMAIN cache'
                  /\ k2 \in DOMAIN cache => cache'[k2] = cache[k2]
       /\ \A k \in DOMAIN cache \ DOMAIN cache' :
              \/ last'.name = "clearCache"
              \/ /\ last'.name = "getFromCache"
                 /\ last'.args[1] = k
                 /\ now - cache[k].timestamp > CACHE_DURATION]_vars

\* C8 witness: a read has evicted an expired entry while another expired
\* entry, not read, is still in the store.
C8_Witness ==
    /\ last.name = "getFromCache"
    /\ LastKey \in DOMAIN saved
    /\ now - saved[LastKey].timestamp > CACHE_DURATION
    /\ getCacheAge(cache, LastKey, now) = Null
    /\ \E k2 \in DOMAIN cache :
           /\ k2 # LastKey
           /\ getCacheAge(cache, k2, now)[1] > CACHE_DURATION

\* C9: markRefreshed(k) records the current time whether or not canRefresh(k)
\* held, so the whole REFRESH_COOLDOWN starts again from the call.
C9_MarkUnconditional ==
    last.name = "markRefreshed" =>
        /\ LastKey \in DOMAIN lastRefreshes
        /\ lastRefreshes[LastKey] = now
        /\ getRemainingCooldown(LastKey) = REFRESH_COOLDOWN

\* C9 witness: markRefreshed was called during the cooldown of an earlier one.
C9_Witness ==
    /\ last.name = "markRefreshed"
    /\ marked[LastKey].cooling
    /\ lastRefreshes[LastKey] = now

C11_FormatCooldownCeil ==
    /\ \E total \in 0..(MaxSeconds + 2) :
           /\ total * 1000 >= fmt.ms
           /\ (total - 1) * 1000 < fmt.ms
           /\ \E m \in 0..total : \E s \in 0..59 :
                  /\ 60 * m + s = total
                  /\ fmt.out = ToString(m) \o "m " \o ToString(s) \o "s"
    /\ fmt.ms = 1 => fmt.out = "0m 1s"
    /\ fmt.ms = 0 => fmt.out = "0m 0s"
    /\ fmt.ms = 90000 => fmt.out = "1m 30s"

\* C11 witness: one millisecond has been formatted as a whole second.
C11_Witness == fmt.ms = 1 /\ fmt.out = "0m 1s"

\* C12: two calls of generateRealisticStockData with the same ticker and the
\* same period return the same series, whatever the wall clock reads at each
\* call: the same number of points, and the same value and the same label at
\* every index.
C12_SeriesIndependentOfClock ==
    synth.again => synth.data = synth.before

\* C14: for a ticker that is, in upper case, META, AAPL, MSFT, GOOGL, AMZN or
\* TSLA, the series generator and the quote-snapshot generator both start
\* from the literal 587, 198, 417, 164, 181 or 275 and not from
\* (seed mod 500) + 50; for every other ticker both start from
\* (seed mod 500) + 50.
C14_BasePriceTable ==
    synth.ticker # << >> =>
        LET upper == toUpperCase(synth.ticker)
            expected ==
                CASE upper = <<77, 69, 84, 65>> -> 587
                  [] upper = <<65, 65, 80, 76>> -> 198
                  [] upper = <<77, 83, 70, 84>> -> 417
                  [] upper = <<71, 79, 79, 71, 76>> -> 164
                  [] upper = <<65, 77, 90, 78>> -> 181
                  [] upper = <<84, 83, 76, 65>> -> 275
                  [] OTHER -> (SumCodes(synth.ticker) % 500) + 50
        IN  /\ synth.basePrice = expected
            /\ synth.quoteBasePrice = expected

\* C14 witness: "meta" was generated from 587 by both generators, where the
\* seed formula gives another price.
C14_Witness ==
    /\ synth.ticker = MetaLower
    /\ synth.basePrice = 587
    /\ synth.quoteBasePrice = 587
    /\ (SumCodes(MetaLower) % 500) + 50 # 587

\* C13: in relative mode every point i of the series that ChartCard displays
\* carries relativeValue[i] = (value[i] / value[0] - 1) * 100, from the same
\* base value[0], and relativeValue[0] = 0, whether the series was
\* synthesized, is the simple fallback series, or came in through the data
\* prop (with or without relativeValue at some of its points).
C13_RelativeFromSameBase ==
    (chart.showRelativeChange /\ chart.chartData # Null) =>
        LET data == chart.chartData[1]
        IN  \A i \in DOMAIN data :
                /\ "relativeValue" \in DOMAIN data[i]
                /\ data[i].relativeValue
                       = ((data[i].value * 10000) \div data[1].value) - 10000
                /\ i = 1 => data[i].relativeValue = 0

\* How the request behind the provider call that settled last ended: for
\* fetchStockQuote it is the GLOBAL_QUOTE request.
SettledOutcome ==
    IF ui.settled[1].first # "" THEN ui.settled[1].first ELSE ui.settled[1].outcome

\* C15: for each provider call (quote, prediction, market volatility) a
\* status that is not 2xx, a malformed body (a 2xx body without the expected
\* fields included) and a transport error end alike: the response is
\* discarded and the fallback (getStockFallbackData, getMockStockPrediction,
\* mockMarketVolatility) is what the caller gets to display.
C15_FailuresFallBack ==
    (ui.settled # Null /\ SettledOutcome # "complete") =>
        ui.settled[1].shown \in {"fallback", "mock"}

\* C16: the promises of fetchStockPredictions, fetchMarketVolatility and
\* fetchStockQuote are never rejected, however the provider's request ends,
\* the failure of the second (market capitalisation) request included.
C16_FetchNeverRejects ==
    ui.settled # Null => ui.settled[1].state = "fulfilled"

\* C16 witness: the transport failed under fetchStockPredictions, and the
\* promise was fulfilled with the mock prediction.
C16_Witness ==
    /\ ui.settled # Null
    /\ ui.settled[1].fn = "fetchStockPredictions"
    /\ ui.settled[1].outcome = "transport"
    /\ ui.settled[1].state = "fulfilled"
    /\ ui.settled[1].value = Some([source |-> "mock", body |-> "complete"])

\* The invocations of fn suspended at an await.
Suspended(fn) ==
    LET of == {t \in BagToSet(ui.tasks) : t.fn = fn}
    IN  BagCardinality([t \in of |-> ui.tasks[t]])

\* C17: however the refresh handlers of ChartCard, StockCard and StockDetail
\* follow each other, also while earlier invocations are suspended at an
\* await, two recorded refreshes of a key are at least REFRESH_COOLDOWN
\* apart: no handler marks a key less than REFRESH_COOLDOWN after its mark
\* before, and a lastRefreshes entry that changes grows by at least
\* REFRESH_COOLDOWN.
C17_RefreshesCooldownApart ==
    [][/\ early' = {}
       /\ \A k \in DOMAIN lastRefreshes \cap DOMAIN lastRefreshes' :
              lastRefreshes'[k] # lastRefreshes[k] =>
                  lastRefreshes'[k] - lastRefreshes[k] >= REFRESH_COOLDOWN]_vars

\* C17 witness: handleRefresh of StockCard was permitted a second time,
\* exactly REFRESH_COOLDOWN after the first, whose invocation is still
\* suspended at its await.
C17_Witness ==
    /\ last.name = "StockCard.handleRefresh"
    /\ Suspended("StockCard.handleRefresh") = 2
    /\ ticks = 1
    /\ now = 2 * REFRESH_COOLDOWN
    /\ marked[quoteKey].at = now
    /\ lastRefreshes[quoteKey] = now

\* C18: a refresh request made while canRefresh is false for a key that the
\* handler checks changes nothing in the cache module: the cache entries and
\* every lastRefreshes entry are as before, no request is started, and the
\* handler reports the remaining cooldown (a toast of StockCard and
\* StockDetail, cooldownTime of ChartCard) without raising an error.
C18_DeniedChangesNothing ==
    [][/\ ( /\ last'.name \in {"StockCard.handleRefresh",
                               "StockCard.handleRefresh.denied",
                               "StockDetail.handleRefresh",
                               "StockDetail.handleRefresh.denied"}
            /\ (~canRefresh(quoteKey) \/ ~canRefresh(predictionKey)) )
          => /\ cache' = cache
             /\ lastRefreshes' = lastRefreshes
             /\ ui'.tasks = ui.tasks
             /\ ui'.toast = formatCooldown(Max(getRemainingCooldown(quoteKey),
                                               getRemainingCooldown(predictionKey)))
       /\ ( /\ last'.name = "fetchChartData"
            /\ last'.args[2]
            /\ ~canRefresh(last'.args[1]) )
          => /\ cache' = cache
             /\ lastRefreshes' = lastRefreshes
             /\ chart'.failed = chart.failed
             /\ chart'.loading = chart.loading
             /\ chart'.chartData = chart.chartData
             /\ chart'.cooldownTime =
                    formatCooldown(getRemainingCooldown(last'.args[1]))]_vars

\* C18 witness: handleRefresh of StockDetail was denied one millisecond
\* before the end of the cooldown of quoteKey, with an entry of quoteKey in
\* the cache, and reported one second.
C18_Witness ==
    /\ last.name = "StockDetail.handleRefresh.denied"
    /\ quoteKey \in DOMAIN cache
    /\ quoteKey \in DOMAIN lastRefreshes
    /\ now - lastRefreshes[quoteKey] = REFRESH_COOLDOWN - 1
    /\ ui.toast = "0m 1s"

\* C19: a fetchChartData(true) called while canRefresh(dataKey) is true
\* deletes the cache entry of dataKey and records the refresh, whatever data
\* it goes on to display: right after it getFromCache(dataKey) is null,
\* canRefresh(dataKey) is false and getRemainingCooldown(dataKey) is
\* REFRESH_COOLDOWN, and the cache entries and the lastRefreshes entries of
\* every other key are as before.
C19_PermittedChartRefresh ==
    [][( /\ last'.name = "fetchChartData"
         /\ last'.args[2]
         /\ canRefresh(last'.args[1]) )
       => LET dataKey == last'.args[1]
          IN  /\ getFromCache(cache', dataKey, now').ret = Null
              /\ dataKey \notin DOMAIN cache'
              /\ ~canRefreshAt(lastRefreshes', dataKey, now')
              /\ getRemainingCooldownAt(lastRefreshes', dataKey, now') =
                     REFRESH_COOLDOWN
              /\ DOMAIN cache' = DOMAIN cache \ {dataKey}
              /\ \A k \in DOMAIN cache' : cache'[k] = cache[k]
              /\ DOMAIN lastRefreshes' = DOMAIN lastRefreshes \cup {dataKey}
              /\ \A k \in DOMAIN lastRefreshes \ {dataKey} :
                     lastRefreshes'[k] = lastRefreshes[k]]_vars

\* C19 witness: the Refresh button of the ChartCard of StockDetail was
\* permitted while the cache held an entry of its dataKey and one of
\* quoteKey, and a refresh of quoteKey was on record: the first entry is gone,
\* the second is there, and both refreshes are on record.
C19_Witness ==
    /\ last.name = "fetchChartData"
    /\ last.args = <<DetailChartKey, TRUE>>
    /\ last.ret = Some("v1")
    /\ ~chart.denied
    /\ DetailChartKey \notin DOMAIN cache
    /\ quoteKey \in DOMAIN cache
    /\ lastRefreshes[DetailChartKey] = now
    /\ quoteKey \in DOMAIN lastRefreshes
    /\ lastRefreshes[quoteKey] < now

\* C20: provided that every pending provider call settles, each loading and
\* refreshing flag that a fetch of StockCard (fetchData, handleRefresh) or of
\* StockDetail (fetchStockData, fetchPredictionData, handleRefresh) has set
\* is false again later, however the calls settle; and fetchChartData of
\* ChartCard, which awaits nothing, never leaves loading set.
C20_FlagsReset ==
    /\ [](~chart.loading)
    /\ (ui.card.loading ~> ~ui.card.loading)
    /\ (ui.card.refreshing ~> ~ui.card.refreshing)
    /\ (ui.detail.loadingStockData ~> ~ui.detail.loadingStockData)
    /\ (ui.detail.loadingPrediction ~> ~ui.detail.loadingPrediction)
    /\ (ui.detail.refreshing ~> ~ui.detail.refreshing)

\* C20 witness: handleRefresh of StockDetail got the body null from the
\* prediction service, which makes fetchPredictionData throw after its
\* await, and the flags of the page are all false.
C20_Witness ==
    /\ ui.settled # Null
    /\ ui.settled[1].fn = "fetchStockPredictions"
    /\ ui.settled[1].task = "StockDetail.handleRefresh"
    /\ ui.settled[1].outcome = "null"
    /\ ui.detail.mounted
    /\ ui.toast = "Failed to load predictions"
    /\ ~ui.detail.refreshing
    /\ ~ui.detail.loadingPrediction
    /\ ~ui.detail.loadingStockData
    /\ chart.mounted
    /\ ~chart.loading

\* C21: the series of generateRealisticStockData has 24 points for "1d", 40
\* for "5d", 30 for "1mo", 90 for "3mo", 26 for "6mo", 52 for "1y" and 52
\* for any other period string, whatever the ticker.
C21_LengthByPeriod ==
    synth.ticker # << >> =>
        Len(synth.data) =
            CASE synth.period = "1d" -> 24
              [] synth.period = "5d" -> 40
              [] synth.period = "1mo" -> 30
              [] synth.period = "3mo" -> 90
              [] synth.period = "6mo" -> 26
              [] OTHER -> 52

\* C21 witness: a series was generated for a period outside the table and
\* has 52 points.
C21_Witness ==
    /\ synth.ticker = TslaLower
    /\ synth.period = "max"
    /\ Len(synth.data) = 52

\* The hour-of-day strings: an hour number in 1..12 followed by AM or PM.
HourLabels == {ToString(h) \o s : h \in 1..12, s \in {"AM", "PM"}}

\* C22: every label of a series generated for the period "1d" is an
\* hour-of-day string, at whatever hour the series is generated.
C22_HourLabelsValid ==
    (synth.ticker # << >> /\ synth.period = "1d") =>
        \A i \in 1..Len(synth.data) : synth.data[i].name \in HourLabels

\* C23: in every state and for every key, canRefresh(k) is true exactly when
\* getRemainingCooldown(k) is 0.
C23_QueriesAgree ==
    \A k \in Keys : canRefresh(k) <=> (getRemainingCooldown(k) = 0)

\* C23 witness: a key refreshed before has one millisecond of cooldown left
\* and may not be refreshed, while a key never refreshed may.
C23_Witness ==
    /\ \E k \in DOMAIN lastRefreshes :
           ~canRefresh(k) /\ getRemainingCooldown(k) = 1
    /\ \E k \in Keys \ DOMAIN lastRefreshes :
           canRefresh(k) /\ getRemainingCooldown(k) = 0

\* C24: markRefreshed(k) changes the lastRefreshes entry of k only: for every
\* other key the entry, canRefresh and getRemainingCooldown are as before,
\* and the cache is as before.
C24_MarkTouchesOneGate ==
    [][last'.name = "markRefreshed" =>
          /\ cache' = cache
          /\ \A k2 \in (Keys \cup DOMAIN lastRefreshes \cup DOMAIN lastRefreshes')
                           \ {last'.args[1]} :
                 /\ (k2 \in DOMAIN lastRefreshes') = (k2 \in DOMAIN lastRefreshes)
                 /\ k2 \in DOMAIN lastRefreshes =>
                        lastRefreshes'[k2] = lastRefreshes[k2]
                 /\ canRefreshAt(lastRefreshes', k2, now') = canRefresh(k2)
                 /\ getRemainingCooldownAt(lastRefreshes', k2, now') =
                        getRemainingCooldown(k2)]_vars

\* C24 witness: "A" was marked while "" was in its cooldown and the cache
\* held an entry; "" is still in its cooldown, from its own mark.
C24_Witness ==
    /\ last.name = "markRefreshed"
    /\ LastKey = "A"
    /\ "" \in DOMAIN lastRefreshes
    /\ lastRefreshes[""] < now
    /\ lastRefreshes["A"] = now
    /\ ~canRefresh("")
    /\ DOMAIN cache # {}

\* C25: a getFromCache(k) or getCacheAge(k) on an entry that has not expired
\* leaves the store as it is; every entry carries the payload and the
\* timestamp of its last saveToCache, and a getFromCache(k) more than
\* CACHE_DURATION after that save returns null, whatever was read in between.
C25_ReadsDoNotRestamp ==
    [][/\ ( /\ last'.name \in {"getFromCache", "getCacheAge"}
            /\ last'.args[1] \in DOMAIN cache
            /\ ~IsExpired(cache[last'.args[1]], now) )
          => cache' = cache
       /\ \A k \in DOMAIN cache' :
              /\ k \in DOMAIN saved'
              /\ cache'[k].timestamp = saved'[k].timestamp
              /\ cache'[k].data = saved'[k].data
       /\ ( /\ last'.name = "getFromCache"
            /\ last'.args[1] \in DOMAIN saved
            /\ now - saved[last'.args[1]].timestamp > CACHE_DURATION )
          => last'.ret = Null]_vars

\* C25 witness: getCacheAge read an entry REFRESH_COOLDOWN old, which still
\* has the timestamp of its save.
C25_Witness ==
    /\ last.name = "getCacheAge"
    /\ LastKey \in DOMAIN cache
    /\ last.ret = Some(REFRESH_COOLDOWN)
    /\ cache[LastKey].timestamp = saved[LastKey].timestamp
    /\ cache[LastKey].timestamp = now - REFRESH_COOLDOWN

\* C26: with the pages, their handlers and the clock alone (nothing calls
\* saveToCache), the cache is empty in every state, getFromCache returns
\* null for every key of the application, usingCachedData of StockCard and
\* of StockDetail is false, and neither refresh button is rendered.
C26_CacheStaysEmpty ==
    /\ DOMAIN cache = {}
    /\ \A k \in {quoteKey, predictionKey, DetailChartKey} \cup
                {chartKey(p) : p \in Periods} :
           getFromCache(cache, k, now).ret = Null
    /\ ~ui.card.usingCachedData
    /\ ~ui.detail.usingCachedData
    /\ ~cardRefreshShown
    /\ ~detailRefreshShown

\* C26 witness: StockCard has run fetchData and shows a quote, the
\* ChartCard of StockDetail was refreshed on an earlier visit of its page,
\* and the refresh button of the card is not rendered.
C26_Witness ==
    /\ ui.card.mounted
    /\ ui.card.stockData # Null
    /\ ~ui.card.loading
    /\ ~cardRefreshShown
    /\ DetailChartKey \in DOMAIN lastRefreshes
    /\ DOMAIN cache = {}

\* The key that the ChartCard on display passes to canRefresh.
DisplayedChartKey == chartDataKey(chart.cacheKey, chart.ticker, chart.selectedPeriod)

\* C27: the chartKey that handleRefresh of StockDetail clears and marks is
\* the dataKey of the ChartCard of the page, and while less than
\* REFRESH_COOLDOWN has passed since handleRefresh marked chartKey,
\* canRefresh of the ChartCard's dataKey is false.
C27_PageRefreshGatesChart ==
    (ui.detail.mounted /\ chart.mounted) =>
        LET pageKey == chartKey(ui.detail.chartPeriod)
        IN  /\ pageKey = DisplayedChartKey
            /\ ( /\ pageKey \in DOMAIN marked
                 /\ now - marked[pageKey].at < REFRESH_COOLDOWN )
               => ~canRefresh(DisplayedChartKey)

C29_StaysLoggedOut ==
    auth.cleared => (auth.user = Null /\ auth.storage = Null)

\* C30: ProtectedRoute renders its children exactly when loading is false
\* and the user is an admin; it renders the placeholder while loading,
\* navigates to /login without a user and to / with a user that is not an
\* admin; and the user that a register leaves is not an admin.
C30_AdminOnly ==
    /\ last.name = "ProtectedRoute" =>
         /\ (last.ret = "children") <=>
              (~auth.loading /\ auth.user # Null /\ auth.user[1].role = "admin")
         /\ auth.loading => last.ret = "Loading..."
         /\ (~auth.loading /\ auth.user = Null) => last.ret = "/login"
         /\ (~auth.loading /\ auth.user # Null /\ auth.user[1].role # "admin")
              => last.ret = "/"
    /\ (last.name = "registerTimer" /\ last.ret = "resolved") =>
         /\ auth.user # Null
         /\ auth.user[1].role = "user"
         /\ ProtectedRoute(auth) \in {"Loading...", "/"}

\* C30 witness: the route was rendered for a user that registered, and
\* navigated to /.
C30_Witness ==
    /\ last.name = "ProtectedRoute"
    /\ last.ret = "/"
    /\ auth.user # Null
    /\ auth.user[1].id = "3"

====
